---- MODULE Spec2Model ----
(***************************************************************************)
(* The BOOP game engine of src/boop_game.py as a state machine.            *)
(*                                                                         *)
(* A GameState is a record value; every method of the engine is an         *)
(* operator from values to values, written statement by statement after    *)
(* the Python.  The one action, Play, is one call of BoopGame.play_move.   *)
(***************************************************************************)
EXTENDS Integers, Sequences, FiniteSets, TLC

(***************************************************************************)
(* PieceType, Color, Piece, None                                           *)
(***************************************************************************)
KITTEN == "kitten"
CAT == "cat"
ORANGE == "orange"
GRAY == "gray"

PieceType == {KITTEN, CAT}
Color == {ORANGE, GRAY}

Piece(type, color) == [type |-> type, color |-> color]

\* Python's None where a Piece is expected (an empty cell, no piece found).
None == [type |-> "None", color |-> "None"]

\* Python's None where a Color is expected (GameState.winner).
NoColor == "None"

\* can_boop without the rank rule.
can_boop_any(self, other) == TRUE

\* Piece.can_boop
can_boop(self, other) ==
    IF self.type = KITTEN /\ other.type = CAT
    THEN FALSE
    ELSE TRUE

(***************************************************************************)
(* Board                                                                   *)
(***************************************************************************)
SIZE == 6

\* Board.__init__: grid[row][col] = None
EmptyGrid == [row \in 0 .. SIZE - 1 |-> [col \in 0 .. SIZE - 1 |-> None]]

is_valid_position(row, col) ==
    0 <= row /\ row < SIZE /\ 0 <= col /\ col < SIZE

is_empty(grid, row, col) ==
    is_valid_position(row, col) /\ grid[row][col] = None

get_piece(grid, row, col) ==
    IF is_valid_position(row, col) THEN grid[row][col] ELSE None

\* Board.place_piece: raises ValueError when the cell is not empty.
place_piece(grid, row, col, piece) ==
    IF ~is_empty(grid, row, col)
    THEN [raised |-> TRUE, grid |-> grid]
    ELSE [raised |-> FALSE, grid |-> [grid EXCEPT ![row][col] = piece]]

\* Board.remove_piece: returns the piece (or None) and empties the cell.
remove_piece(grid, row, col) ==
    [piece |-> grid[row][col], grid |-> [grid EXCEPT ![row][col] = None]]

\* Board.move_piece: the piece is removed first; it is put down again only
\* when there was one and the destination is empty.
move_piece(grid, from_row, from_col, to_row, to_col) ==
    LET rem == remove_piece(grid, from_row, from_col) IN
    IF rem.piece # None /\ is_empty(rem.grid, to_row, to_col)
    THEN [piece |-> rem.piece,
          grid |-> place_piece(rem.grid, to_row, to_col, rem.piece).grid]
    ELSE [piece |-> rem.piece, grid |-> rem.grid]

\* The direction table of Board.get_all_adjacent, in its order.
directions ==
    << <<-1, -1>>, <<-1, 0>>, <<-1, 1>>,
       <<0, -1>>,             <<0, 1>>,
       <<1, -1>>,  <<1, 0>>,  <<1, 1>> >>

RECURSIVE AdjacentFrom(_, _, _)
AdjacentFrom(row, col, i) ==
    IF i > Len(directions) THEN << >>
    ELSE LET new_row == row + directions[i][1]
             new_col == col + directions[i][2]
         IN  IF is_valid_position(new_row, new_col)
             THEN << <<new_row, new_col>> >> \o AdjacentFrom(row, col, i + 1)
             ELSE AdjacentFrom(row, col, i + 1)

get_all_adjacent(row, col) == AdjacentFrom(row, col, 1)

\* The loops of count_pieces_by_color over row and col, from cell k
\* (k = row * SIZE + col) on.
RECURSIVE CountColorFrom(_, _, _)
CountColorFrom(grid, color, k) ==
    IF k >= SIZE * SIZE THEN 0
    ELSE LET piece == grid[k \div SIZE][k % SIZE] IN
         (IF piece # None /\ piece.color = color THEN 1 ELSE 0)
         + CountColorFrom(grid, color, k + 1)

count_pieces_by_color(grid, color) == CountColorFrom(grid, color, 0)

(***************************************************************************)
(* Player                                                                  *)
(***************************************************************************)
\* A list of n copies of piece ([piece for _ in range(n)]).
Copies(n, piece) == [i \in 1 .. n |-> piece]

\* Player.__init__: 8 Kittens in the pool, 8 Cats in the reserve.
NewPlayer(color) ==
    [color |-> color,
     pool |-> Copies(8, Piece(KITTEN, color)),
     reserve |-> Copies(8, Piece(CAT, color))]

has_pieces_to_play(player) == Len(player.pool) > 0

\* Index of the first piece of piece_type in pool, 0 when there is none.
RECURSIVE FirstOfType(_, _, _)
FirstOfType(pool, piece_type, i) ==
    IF i > Len(pool) THEN 0
    ELSE IF pool[i].type = piece_type THEN i
    ELSE FirstOfType(pool, piece_type, i + 1)

\* list.pop(i), i counted from 1.
RemoveAt(seq, i) == SubSeq(seq, 1, i - 1) \o SubSeq(seq, i + 1, Len(seq))

\* get_piece_from_pool without its test of the type: pops the first piece.
get_piece_from_pool_any_type(player, piece_type) ==
    IF Len(player.pool) = 0
    THEN [piece |-> None, player |-> player]
    ELSE [piece |-> player.pool[1],
          player |-> [player EXCEPT !.pool = RemoveAt(player.pool, 1)]]

\* Player.get_piece_from_pool: pops the first piece of the type, or None.
get_piece_from_pool(player, piece_type) ==
    LET i == FirstOfType(player.pool, piece_type, 1) IN
    IF i = 0
    THEN [piece |-> None, player |-> player]
    ELSE [piece |-> player.pool[i],
          player |-> [player EXCEPT !.pool = RemoveAt(player.pool, i)]]

\* Player.return_to_pool
return_to_pool(player, piece) ==
    [player EXCEPT !.pool = Append(player.pool, piece)]

\* Player.graduate_kittens: count times reserve.pop() appended to the pool,
\* only when the reserve holds at least count pieces.
RECURSIVE PopToPool(_, _)
PopToPool(player, n) ==
    IF n = 0 THEN player
    ELSE PopToPool(
            [player EXCEPT
                !.pool = Append(player.pool, player.reserve[Len(player.reserve)]),
                !.reserve = SubSeq(player.reserve, 1, Len(player.reserve) - 1)],
            n - 1)

\* graduate_kittens releasing what the reserve holds when it holds less
\* than count.
graduate_kittens_partial(player, count) ==
    PopToPool(player, IF Len(player.reserve) >= count THEN count
                      ELSE Len(player.reserve))

\* graduate_kittens reading reserve[-1] instead of reserve.pop(): the Cats
\* reach the pool and stay in the reserve.
graduate_kittens_no_pop(player, count) ==
    IF Len(player.reserve) >= count
    THEN [player EXCEPT !.pool = player.pool \o
            [i \in 1 .. count |-> player.reserve[Len(player.reserve)]]]
    ELSE player

graduate_kittens(player, count) ==
    IF Len(player.reserve) >= count
    THEN PopToPool(player, count)
    ELSE player

(***************************************************************************)
(* GameState                                                               *)
(***************************************************************************)
\* GameState.__init__
NewGameState ==
    [board |-> EmptyGrid,
     players |-> [i \in 0 .. 1 |-> IF i = 0 THEN NewPlayer(ORANGE) ELSE NewPlayer(GRAY)],
     current_player_idx |-> 0,
     winner |-> NoColor,
     move_count |-> 0]

get_current_player(game_state) == game_state.players[game_state.current_player_idx]

get_opponent(game_state) == game_state.players[1 - game_state.current_player_idx]

\* switch_player that leaves the index as it is.
switch_player_not(game_state) == game_state

switch_player(game_state) ==
    [game_state EXCEPT !.current_player_idx = 1 - game_state.current_player_idx]

\* GameState.get_empty_positions: the empty cells, row-major.
RECURSIVE EmptyFrom(_, _)
EmptyFrom(grid, k) ==
    IF k >= SIZE * SIZE THEN << >>
    ELSE IF is_empty(grid, k \div SIZE, k % SIZE)
         THEN << <<k \div SIZE, k % SIZE>> >> \o EmptyFrom(grid, k + 1)
         ELSE EmptyFrom(grid, k + 1)

get_empty_positions(game_state) == EmptyFrom(game_state.board, 0)

(***************************************************************************)
(* BoopEngine                                                              *)
(***************************************************************************)
\* Each axis of to_pos - from_pos normalised to -1, 0 or 1.
Sign(d) == IF d = 0 THEN 0 ELSE IF d > 0 THEN 1 ELSE -1

\* calculate_push_direction with the two positions swapped: towards the
\* placed piece.
calculate_push_direction_reversed(from_pos, to_pos) ==
    << Sign(from_pos[1] - to_pos[1]), Sign(from_pos[2] - to_pos[2]) >>

\* calculate_push_direction with the two axes exchanged.
calculate_push_direction_transposed(from_pos, to_pos) ==
    << Sign(to_pos[2] - from_pos[2]), Sign(to_pos[1] - from_pos[1]) >>

calculate_push_direction(from_pos, to_pos) ==
    << Sign(to_pos[1] - from_pos[1]), Sign(to_pos[2] - from_pos[2]) >>

is_blocked_by_line_of_two(grid, pos, push_dir) ==
    LET behind_row == pos[1] + push_dir[1]
        behind_col == pos[2] + push_dir[2]
    IN  IF is_valid_position(behind_row, behind_col)
        THEN get_piece(grid, behind_row, behind_col) # None
        ELSE FALSE

\* The loop body of resolve_boop without the line-of-two check and without
\* the is_empty test of the destination: move_piece is called for every
\* destination on the board.
BoopOne_unchecked(acc, placed_piece, placed_pos, adj) ==
    LET grid == acc.grid
        target_piece == get_piece(grid, adj[1], adj[2])
        push_dir == calculate_push_direction(placed_pos, adj)
        dest_row == adj[1] + push_dir[1]
        dest_col == adj[2] + push_dir[2]
    IN  IF target_piece = None THEN acc
        ELSE IF ~can_boop(placed_piece, target_piece) THEN acc
        ELSE IF ~is_valid_position(dest_row, dest_col)
             THEN LET rem == remove_piece(grid, adj[1], adj[2]) IN
                  [grid |-> rem.grid,
                   booped_off |-> Append(acc.booped_off, rem.piece)]
        ELSE [grid |-> move_piece(grid, adj[1], adj[2], dest_row, dest_col).grid,
              booped_off |-> acc.booped_off]

\* The loop body of resolve_boop with the destination one cell too far:
\* two steps from the neighbour.
BoopOne_two_cells(acc, placed_piece, placed_pos, adj) ==
    LET grid == acc.grid
        target_piece == get_piece(grid, adj[1], adj[2])
        push_dir == calculate_push_direction(placed_pos, adj)
        dest_row == adj[1] + 2 * push_dir[1]
        dest_col == adj[2] + 2 * push_dir[2]
    IN  IF target_piece = None THEN acc
        ELSE IF ~can_boop(placed_piece, target_piece) THEN acc
        ELSE IF is_blocked_by_line_of_two(grid, adj, push_dir) THEN acc
        ELSE IF ~is_valid_position(dest_row, dest_col)
             THEN LET rem == remove_piece(grid, adj[1], adj[2]) IN
                  [grid |-> rem.grid,
                   booped_off |-> Append(acc.booped_off, rem.piece)]
        ELSE IF is_empty(grid, dest_row, dest_col)
             THEN [grid |-> move_piece(grid, adj[1], adj[2], dest_row, dest_col).grid,
                   booped_off |-> acc.booped_off]
        ELSE acc

\* One iteration of the loop of resolve_boop, for the neighbour adj, on the
\* board as the earlier iterations left it.
BoopOne(acc, placed_piece, placed_pos, adj) ==
    LET grid == acc.grid
        target_piece == get_piece(grid, adj[1], adj[2])
        push_dir == calculate_push_direction(placed_pos, adj)
        dest_row == adj[1] + push_dir[1]
        dest_col == adj[2] + push_dir[2]
    IN  IF target_piece = None THEN acc
        ELSE IF ~can_boop(placed_piece, target_piece) THEN acc
        ELSE IF is_blocked_by_line_of_two(grid, adj, push_dir) THEN acc
        ELSE IF ~is_valid_position(dest_row, dest_col)
             THEN LET rem == remove_piece(grid, adj[1], adj[2]) IN
                  [grid |-> rem.grid,
                   booped_off |-> Append(acc.booped_off, rem.piece)]
        ELSE IF is_empty(grid, dest_row, dest_col)
             THEN [grid |-> move_piece(grid, adj[1], adj[2], dest_row, dest_col).grid,
                   booped_off |-> acc.booped_off]
        ELSE acc

RECURSIVE BoopLoop(_, _, _, _, _)
BoopLoop(acc, placed_piece, placed_pos, adjacent_positions, i) ==
    IF i > Len(adjacent_positions) THEN acc
    ELSE BoopLoop(BoopOne(acc, placed_piece, placed_pos, adjacent_positions[i]),
                  placed_piece, placed_pos, adjacent_positions, i + 1)

\* BoopEngine.resolve_boop: the board after the pushes and the list of the
\* pieces pushed off the board.
resolve_boop(grid, placed_pos) ==
    LET placed_piece == get_piece(grid, placed_pos[1], placed_pos[2]) IN
    IF placed_piece = None
    THEN [grid |-> grid, booped_off |-> << >>]
    ELSE BoopLoop([grid |-> grid, booped_off |-> << >>], placed_piece, placed_pos,
                  get_all_adjacent(placed_pos[1], placed_pos[2]), 1)

(***************************************************************************)
(* GraduationEngine                                                        *)
(***************************************************************************)
\* GraduationEngine._is_valid_line: all positions hold pieces of color.
_is_valid_line(grid, positions, color) ==
    \A i \in 1 .. Len(positions) :
        LET p == get_piece(grid, positions[i][1], positions[i][2])
        IN  ~(p = None \/ p.color # color)

\* The candidate lines of the four loops of find_lines_of_three, each in
\* the order of its loop (row outer, col inner).
HorizontalLines ==
    [k \in 1 .. SIZE * (SIZE - 2) |->
        LET row == (k - 1) \div (SIZE - 2)
            col == (k - 1) % (SIZE - 2)
        IN  << <<row, col>>, <<row, col + 1>>, <<row, col + 2>> >>]

VerticalLines ==
    [k \in 1 .. (SIZE - 2) * SIZE |->
        LET row == (k - 1) \div SIZE
            col == (k - 1) % SIZE
        IN  << <<row, col>>, <<row + 1, col>>, <<row + 2, col>> >>]

DiagonalDownRightLines ==
    [k \in 1 .. (SIZE - 2) * (SIZE - 2) |->
        LET row == (k - 1) \div (SIZE - 2)
            col == (k - 1) % (SIZE - 2)
        IN  << <<row, col>>, <<row + 1, col + 1>>, <<row + 2, col + 2>> >>]

DiagonalDownLeftLines ==
    [k \in 1 .. (SIZE - 2) * (SIZE - 2) |->
        LET row == (k - 1) \div (SIZE - 2)
            col == 2 + ((k - 1) % (SIZE - 2))
        IN  << <<row, col>>, <<row + 1, col - 1>>, <<row + 2, col - 2>> >>]

\* GraduationEngine.find_lines_of_three: horizontal, vertical, then the two
\* diagonal families, keeping the lines that are valid for color.
find_lines_of_three(grid, color) ==
    LET Valid(line) == _is_valid_line(grid, line, color)
    IN  SelectSeq(HorizontalLines, Valid)
        \o SelectSeq(VerticalLines, Valid)
        \o SelectSeq(DiagonalDownRightLines, Valid)
        \o SelectSeq(DiagonalDownLeftLines, Valid)

\* _line_has_kitten asking for Kittens only (all in place of any).
_line_all_kittens(grid, positions) ==
    \A i \in 1 .. Len(positions) :
        LET piece == get_piece(grid, positions[i][1], positions[i][2])
        IN  piece # None /\ piece.type = KITTEN

_line_has_kitten(grid, positions) ==
    \E i \in 1 .. Len(positions) :
        LET piece == get_piece(grid, positions[i][1], positions[i][2])
        IN  piece # None /\ piece.type = KITTEN

\* The loop of graduate_line over the cells of line: every piece leaves the
\* board, a Cat goes to the pool of player, a Kitten goes nowhere.
RECURSIVE GraduateCells(_, _, _)
GraduateCells(acc, line, i) ==
    IF i > Len(line) THEN acc
    ELSE LET rem == remove_piece(acc.grid, line[i][1], line[i][2]) IN
         GraduateCells(
            IF rem.piece = None
            THEN [acc EXCEPT !.grid = rem.grid]
            ELSE IF rem.piece.type = CAT
            THEN [grid |-> rem.grid,
                  player |-> return_to_pool(acc.player, rem.piece),
                  cats_returned |-> acc.cats_returned + 1,
                  kittens_graduated |-> acc.kittens_graduated]
            ELSE [grid |-> rem.grid,
                  player |-> acc.player,
                  cats_returned |-> acc.cats_returned,
                  kittens_graduated |-> acc.kittens_graduated + 1],
            line, i + 1)

\* The end of graduate_line: done is what the loop over the cells left.
graduate_line_release(game_state, done) ==
    [game_state |->
        [game_state EXCEPT
            !.board = done.grid,
            !.players[game_state.current_player_idx] = graduate_kittens(done.player, 3)],
     cats_returned |-> done.cats_returned,
     kittens_graduated |-> done.kittens_graduated]

\* GraduationEngine.graduate_line: the state after it, with the two local
\* counters it keeps.
graduate_line(game_state, line) ==
    graduate_line_release(
        game_state,
        GraduateCells([grid |-> game_state.board,
                       player |-> get_current_player(game_state),
                       cats_returned |-> 0,
                       kittens_graduated |-> 0], line, 1))

(***************************************************************************)
(* WinChecker                                                              *)
(***************************************************************************)
\* The test check_win applies to a line: all three pieces are Cats.
AllCats(grid, line) ==
    \A i \in 1 .. Len(line) :
        LET p == get_piece(grid, line[i][1], line[i][2])
        IN  p # None /\ p.type = CAT

\* The loops of check_win that count the Cats of color on the board, from
\* cell k (k = row * SIZE + col) on.
RECURSIVE CountCatsFrom(_, _, _)
CountCatsFrom(grid, color, k) ==
    IF k >= SIZE * SIZE THEN 0
    ELSE LET piece == get_piece(grid, k \div SIZE, k % SIZE) IN
         (IF piece # None /\ piece.color = color /\ piece.type = CAT THEN 1 ELSE 0)
         + CountCatsFrom(grid, color, k + 1)

\* WinChecker.check_win: the color of the current player, or None.
check_win(game_state) ==
    LET player == get_current_player(game_state)
        grid == game_state.board
        lines == find_lines_of_three(grid, player.color)
        cat_count == CountCatsFrom(grid, player.color, 0)
    IN  IF \E i \in 1 .. Len(lines) : AllCats(grid, lines[i])
        THEN player.color
        ELSE IF cat_count = 8 THEN player.color
        ELSE NoColor

(***************************************************************************)
(* BoopGame                                                                *)
(***************************************************************************)
\* "for p in self.state.players: if p.color == booped_piece.color:
\*  p.return_to_pool(booped_piece)", for each booped piece in turn.
RECURSIVE ReturnBooped(_, _, _)
ReturnBooped(players, booped_off, i) ==
    IF i > Len(booped_off) THEN players
    ELSE ReturnBooped(
            [k \in 0 .. 1 |->
                IF players[k].color = booped_off[i].color
                THEN return_to_pool(players[k], booped_off[i])
                ELSE players[k]],
            booped_off, i + 1)

\* The graduation loop without its break: the last line with a Kitten.
RECURSIVE LastKittenLine(_, _, _)
LastKittenLine(grid, lines, i) ==
    IF i > Len(lines) THEN 0
    ELSE LET later == LastKittenLine(grid, lines, i + 1) IN
         IF later # 0 THEN later
         ELSE IF _line_has_kitten(grid, lines[i]) THEN i
         ELSE 0

\* Index in lines of the first line that has a Kitten, 0 when none has.
RECURSIVE FirstKittenLine(_, _, _)
FirstKittenLine(grid, lines, i) ==
    IF i > Len(lines) THEN 0
    ELSE IF _line_has_kitten(grid, lines[i]) THEN i
    ELSE FirstKittenLine(grid, lines, i + 1)

\* What a call that returns False leaves behind: nothing changed.
Rejected(game_state) ==
    [result |-> FALSE, raised |-> FALSE, game_state |-> game_state,
     after_place |-> game_state, after_boop |-> game_state,
     after_graduation |-> game_state, booped_off |-> << >>,
     graduated |-> << >>, cats_returned |-> 0, kittens_graduated |-> 0,
     winner |-> NoColor]

\* BoopGame.play_move, its steps last to first.  Every step hands the
\* values it computed to the next one.  The record a call yields holds the
\* return value, whether an exception left the call, the state the call
\* leaves, and the states between its steps: after the placement, after
\* the pushes (knocked-out pieces back in their pools), after the
\* graduation step; the list resolve_boop returned, the line graduated
\* (<< >> when none), the two counters of graduate_line and the value of
\* check_win.

\* "# Check for win" and "# Switch player".
play_move_win(after_place, after_boop, booped_off, graduated, grad, winner) ==
    [result |-> TRUE, raised |-> FALSE,
     game_state |->
         IF winner # NoColor
         THEN [grad.game_state EXCEPT !.winner = winner]
         ELSE switch_player(grad.game_state),
     after_place |-> after_place, after_boop |-> after_boop,
     after_graduation |-> grad.game_state,
     booped_off |-> booped_off,
     graduated |-> graduated,
     cats_returned |-> grad.cats_returned,
     kittens_graduated |-> grad.kittens_graduated,
     winner |-> winner]

\* "winner = WinChecker.check_win(self.state)".
play_move_check(after_place, after_boop, booped_off, graduated, grad) ==
    play_move_win(after_place, after_boop, booped_off, graduated, grad,
                  check_win(grad.game_state))

\* "# Check for graduation": the first line that has a Kitten graduates.
\* ("Alternative graduation" below it is a pass.)
play_move_graduate(after_place, after_boop, booped_off, lines, first) ==
    IF first = 0
    THEN play_move_check(after_place, after_boop, booped_off, << >>,
                         [game_state |-> after_boop, cats_returned |-> 0,
                          kittens_graduated |-> 0])
    ELSE play_move_check(after_place, after_boop, booped_off, lines[first],
                         graduate_line(after_boop, lines[first]))

\* "for line in lines: if _line_has_kitten(...)".
play_move_found(after_place, after_boop, booped_off, lines) ==
    play_move_graduate(after_place, after_boop, booped_off, lines,
                       FirstKittenLine(after_boop.board, lines, 1))

\* "# Return booped pieces to their owners' pools", then the lines of three
\* of the mover's color.
play_move_lines(after_place, after_boop, booped_off) ==
    play_move_found(after_place, after_boop, booped_off,
                    find_lines_of_three(after_boop.board,
                                        get_current_player(after_boop).color))

\* "# Resolve booping".
play_move_boop(after_place, boop) ==
    play_move_lines(after_place,
                    [after_place EXCEPT
                        !.board = boop.grid,
                        !.players = ReturnBooped(after_place.players,
                                                 boop.booped_off, 1)],
                    boop.booped_off)

\* "# Place piece": an exception of place_piece leaves the call with the
\* piece taken from the pool.
play_move_place(taken, row, col, put) ==
    IF put.raised
    THEN [Rejected(taken) EXCEPT !.raised = TRUE]
    ELSE play_move_boop([taken EXCEPT !.board = put.grid,
                                      !.move_count = taken.move_count + 1],
                        resolve_boop(put.grid, <<row, col>>))

\* "# Get piece from pool".
play_move_take(game_state, row, col, got) ==
    IF got.piece = None THEN Rejected(game_state)
    ELSE play_move_place(
            [game_state EXCEPT !.players[game_state.current_player_idx] = got.player],
            row, col,
            place_piece(game_state.board, row, col, got.piece))

\* "# Validate position".
play_move(game_state, row, col, piece_type) ==
    IF ~is_empty(game_state.board, row, col) THEN Rejected(game_state)
    ELSE play_move_take(game_state, row, col,
                        get_piece_from_pool(get_current_player(game_state),
                                            piece_type))

RECURSIVE ValidActionsFromAnyRank(_, _)
ValidActionsFromAnyRank(empty_positions, i) ==
    IF i > Len(empty_positions) THEN << >>
    ELSE << <<empty_positions[i][1], empty_positions[i][2], KITTEN>>,
            <<empty_positions[i][1], empty_positions[i][2], CAT>> >>
         \o ValidActionsFromAnyRank(empty_positions, i + 1)

\* get_valid_moves offering both ranks whatever the pool holds.
get_valid_moves_any_rank(game_state) ==
    ValidActionsFromAnyRank(get_empty_positions(game_state), 1)

\* BoopGame.get_valid_moves
get_valid_moves(game_state) ==
    LET player == get_current_player(game_state)
        empty_positions == get_empty_positions(game_state)
        has_kitten == \E i \in 1 .. Len(player.pool) : player.pool[i].type = KITTEN
        has_cat == \E i \in 1 .. Len(player.pool) : player.pool[i].type = CAT
        MovesAt(pos) ==
            (IF has_kitten THEN << <<pos[1], pos[2], KITTEN>> >> ELSE << >>)
            \o (IF has_cat THEN << <<pos[1], pos[2], CAT>> >> ELSE << >>)
        Moves[i \in 0 .. Len(empty_positions)] ==
            IF i = 0 THEN << >> ELSE Moves[i - 1] \o MovesAt(empty_positions[i])
    IN  Moves[Len(empty_positions)]

\* BoopGame.is_game_over
is_game_over(game_state) ==
    IF game_state.winner # NoColor THEN TRUE
    ELSE IF ~has_pieces_to_play(get_current_player(game_state)) THEN TRUE
    ELSE IF Len(get_empty_positions(game_state)) = 0 THEN TRUE
    ELSE FALSE

\* BoopGame.get_winner
get_winner(game_state) == game_state.winner

(***************************************************************************)
(* MCTS: what the search asks of a game state  (src/boop_mcts.py)          *)
(***************************************************************************)
\* _is_terminal without its second test.
_is_terminal_no_pool_test(game_state) ==
    IF game_state.winner # NoColor THEN TRUE
    ELSE IF Len(get_empty_positions(game_state)) = 0 THEN TRUE
    ELSE FALSE

\* MCTS._is_terminal
_is_terminal(game_state) ==
    IF game_state.winner # NoColor THEN TRUE
    ELSE IF ~has_pieces_to_play(get_current_player(game_state)) THEN TRUE
    ELSE IF Len(get_empty_positions(game_state)) = 0 THEN TRUE
    ELSE FALSE

\* "any(p.type == piece_type for p in player.pool)"
PoolHasType(pool, piece_type) ==
    \E i \in 1 .. Len(pool) : pool[i].type = piece_type

\* The loop of _get_valid_actions over empty_positions, from the i-th on.
RECURSIVE ValidActionsFrom(_, _, _, _)
ValidActionsFrom(empty_positions, has_kitten, has_cat, i) ==
    IF i > Len(empty_positions) THEN << >>
    ELSE (IF has_kitten
          THEN << <<empty_positions[i][1], empty_positions[i][2], KITTEN>> >>
          ELSE << >>)
         \o (IF has_cat
             THEN << <<empty_positions[i][1], empty_positions[i][2], CAT>> >>
             ELSE << >>)
         \o ValidActionsFrom(empty_positions, has_kitten, has_cat, i + 1)

\* MCTS._get_valid_actions
_get_valid_actions(game_state) ==
    ValidActionsFrom(get_empty_positions(game_state),
                     PoolHasType(get_current_player(game_state).pool, KITTEN),
                     PoolHasType(get_current_player(game_state).pool, CAT),
                     1)

(***************************************************************************)
(* BoopNetWrapper: the action encoding  (src/boop_alphazero_network.py)    *)
(***************************************************************************)
\* Length of the action vector: "np.zeros(108)".
NumActions == 108

\* The first index decode_action has no action for; the slot
\* get_valid_actions_mask sets when it finds no valid move.
PassSlot == 72

\* Offset of the Cat placements in the encoding.
CatOffset == 36

\* encode_action that forgets the offset of the Cats.
encode_action_no_offset(row, col, piece_type) == row * 6 + col

\* BoopNetWrapper.encode_action
encode_action(row, col, piece_type) ==
    IF piece_type = KITTEN THEN row * 6 + col
    ELSE row * 6 + col + CatOffset

\* decode_action reading the position column-major.
decode_action_transposed(action_idx) ==
    IF action_idx < CatOffset
    THEN << <<action_idx % 6, action_idx \div 6, KITTEN>> >>
    ELSE IF action_idx < PassSlot
    THEN << <<(action_idx - CatOffset) % 6, (action_idx - CatOffset) \div 6, CAT>> >>
    ELSE << >>

\* BoopNetWrapper.decode_action: << >> is None, <<action>> an action.
decode_action(action_idx) ==
    IF action_idx < CatOffset
    THEN << <<action_idx \div 6, action_idx % 6, KITTEN>> >>
    ELSE IF action_idx < PassSlot
    THEN << <<(action_idx - CatOffset) \div 6, (action_idx - CatOffset) % 6, CAT>> >>
    ELSE << >>

\* An array of NumActions zeros.
Zeros == [i \in 0 .. NumActions - 1 |-> 0]

\* Sum of the entries lo .. hi of an array.
RECURSIVE SumRange(_, _, _)
SumRange(array, lo, hi) ==
    IF lo > hi THEN 0
    ELSE IF lo = hi THEN array[lo]
    ELSE SumRange(array, lo, (lo + hi) \div 2)
         + SumRange(array, (lo + hi) \div 2 + 1, hi)

\* array.sum()
SumOf(array) == SumRange(array, 0, NumActions - 1)

\* The loop of get_valid_actions_mask over empty_positions (the state has
\* no get_valid_moves method, so the mask is computed from the pool): an
\* entry is 1.0 when the loop sets it for some empty position.
MaskFrom(empty_positions, has_kitten, has_cat) ==
    [k \in 0 .. NumActions - 1 |->
        IF \E i \in 1 .. Len(empty_positions) :
              \/ has_kitten /\ k = encode_action(empty_positions[i][1],
                                                 empty_positions[i][2], KITTEN)
              \/ has_cat /\ k = encode_action(empty_positions[i][1],
                                              empty_positions[i][2], CAT)
        THEN 1 ELSE 0]

\* "if mask.sum() == 0: mask[72] = 1.0"
AllowPass(mask) ==
    IF SumOf(mask) = 0 THEN [mask EXCEPT ![PassSlot] = 1] ELSE mask

\* BoopNetWrapper.get_valid_actions_mask
get_valid_actions_mask(game_state) ==
    AllowPass(MaskFrom(get_empty_positions(game_state),
                       PoolHasType(get_current_player(game_state).pool, KITTEN),
                       PoolHasType(get_current_player(game_state).pool, CAT)))

(***************************************************************************)
(* MCTSNode  (src/boop_mcts.py)                                            *)
(***************************************************************************)
\* The numbers of the search: a ratio num/den of integers with den > 0, or
\* not-a-number.  A prior is such a number.
Ratio(num, den) == [nan |-> FALSE, num |-> num, den |-> den]

NaN == [nan |-> TRUE, num |-> 0, den |-> 1]

\* c_puct, 1.5 where MCTS is built with its defaults, as c_puct_num over
\* c_puct_den.
c_puct_num == 3

c_puct_den == 2

\* MCTSNode.__init__.  Nodes live in a list and are named by their place
\* in it; parent 0 is None, game_state << >> is None and <<g>> the state g,
\* action << >> is None, children lists the places of the children in the
\* order they were inserted.
MCTSNode(game_state, parent, prior, action) ==
    [game_state |-> game_state, parent |-> parent, action |-> action,
     prior |-> prior, children |-> << >>, visit_count |-> 0, value_sum |-> 0,
     is_expanded |-> FALSE]

\* MCTSNode.value, as a ratio.
value(node) ==
    IF node.visit_count = 0 THEN Ratio(0, 1)
    ELSE Ratio(node.value_sum, node.visit_count)

\* MCTSNode.is_leaf
is_leaf(node) == ~node.is_expanded

\* x * sqrt(n) > y for integers x, y and n >= 0.
SqrtGreater(x, y, n) ==
    IF y < 0 THEN x >= 0 \/ x * x * n < y * y
    ELSE x > 0 /\ x * x * n > y * y

\* ucb_score of node a > ucb_score of node b under a parent visited n
\* times, neither prior being not-a-number.  With q = -value() and
\* u = c_puct * prior * sqrt(n) / (1 + visit_count), the test
\* q_a + u_a > q_b + u_b is (u_a - u_b) > (q_b - q_a), both sides brought
\* to one denominator.
ScoreGreater(a, b, n) ==
    SqrtGreater(
        (c_puct_num * a.prior.num * c_puct_den * b.prior.den * (1 + b.visit_count)
           - c_puct_num * b.prior.num * c_puct_den * a.prior.den * (1 + a.visit_count))
        * value(a).den * value(b).den,
        (value(a).num * value(b).den - value(b).num * value(a).den)
        * c_puct_den * a.prior.den * (1 + a.visit_count)
        * c_puct_den * b.prior.den * (1 + b.visit_count),
        n)

\* The test of select_child with >= in the place of >.
ScoreBeatsOrTies(nodes, parent, child, best) ==
    IF nodes[child].prior.nan THEN FALSE
    ELSE IF best = 0 THEN TRUE
    ELSE ~ScoreGreater(nodes[best], nodes[child], nodes[parent].visit_count)

\* "if ucb_score > best_score": best is the best child so far, 0 while
\* best_score is -inf.  A score that is not-a-number is greater than
\* nothing.
ScoreBeats(nodes, parent, child, best) ==
    IF nodes[child].prior.nan THEN FALSE
    ELSE IF best = 0 THEN TRUE
    ELSE ScoreGreater(nodes[child], nodes[best], nodes[parent].visit_count)

\* The loop of select_child over children.items(), from the i-th on.
RECURSIVE SelectFrom(_, _, _, _)
SelectFrom(nodes, parent, i, best) ==
    IF i > Len(nodes[parent].children) THEN best
    ELSE IF ScoreBeats(nodes, parent, nodes[parent].children[i], best)
    THEN SelectFrom(nodes, parent, i + 1, nodes[parent].children[i])
    ELSE SelectFrom(nodes, parent, i + 1, best)

\* MCTSNode.select_child: the place of best_child, 0 for None.
select_child(nodes, parent) == SelectFrom(nodes, parent, 1, 0)

\* "action_idx = row * 6 + col; if piece_type == CAT: action_idx += 36"
expand_action_idx(action) ==
    IF action[3] = CAT THEN action[1] * 6 + action[2] + 36
    ELSE action[1] * 6 + action[2]

\* "policy[action_idx] if action_idx < len(policy) else 0.0"; policy[k] is
\* the (k+1)-th member of the list.
PriorOf(policy, action) ==
    IF expand_action_idx(action) < Len(policy)
    THEN policy[expand_action_idx(action) + 1]
    ELSE Ratio(0, 1)

\* expand without "self.is_expanded = True".
expand_unmarked(nodes, node, policy, valid_actions) ==
    [nodes EXCEPT
        ![node].children = [i \in 1 .. Len(valid_actions) |-> Len(nodes) + i]]
    \o [i \in 1 .. Len(valid_actions) |->
            MCTSNode(<< >>, node, PriorOf(policy, valid_actions[i]),
                     valid_actions[i])]

\* MCTSNode.expand: one child per valid action, appended to the list.
expand(nodes, node, policy, valid_actions) ==
    [nodes EXCEPT
        ![node].is_expanded = TRUE,
        ![node].children = [i \in 1 .. Len(valid_actions) |-> Len(nodes) + i]]
    \o [i \in 1 .. Len(valid_actions) |->
            MCTSNode(<< >>, node, PriorOf(policy, valid_actions[i]),
                     valid_actions[i])]

(***************************************************************************)
(* MCTS.search and MCTS.get_best_action  (src/boop_mcts.py)                *)
(***************************************************************************)
\* The evaluators the search is run with, each a deterministic function
\* of the state: what neural_net.predict returns.  The policy is a list of
\* priors in halves:
\*   "flat"     0.5 for each of the 108 actions;
\*   "kittens"  1 for the Kitten placements, 0.5 for the Cat placements, 0
\*              for the rest;
\*   "spike"    1 for the Cat on (2, 2) and 0 for every other action;
\*   "short"    a list of 36 entries, 0.5 each;
\*   "nan"      not-a-number for each of the 108 actions.
PolicyKinds == {"flat", "kittens", "spike", "short", "nan"}

Values == {-1, 0, 1}

Evaluators == [policy : PolicyKinds, value : Values]

PolicyOf(kind) ==
    IF kind = "flat" THEN [k \in 1 .. NumActions |-> Ratio(1, 2)]
    ELSE IF kind = "kittens"
    THEN [k \in 1 .. NumActions |->
            IF k <= 36 THEN Ratio(2, 2)
            ELSE IF k <= 72 THEN Ratio(1, 2) ELSE Ratio(0, 2)]
    ELSE IF kind = "spike"
    THEN [k \in 1 .. NumActions |->
            IF k = encode_action(2, 2, CAT) + 1 THEN Ratio(2, 2) ELSE Ratio(0, 2)]
    ELSE IF kind = "short" THEN [k \in 1 .. 36 |-> Ratio(1, 2)]
    ELSE [k \in 1 .. NumActions |-> NaN]

\* "policy, value = self.neural_net.predict(node.game_state)"
predict(evaluator, game_state) ==
    [policy |-> PolicyOf(evaluator.policy), value |-> evaluator.value]

\* The materialisation without deepcopy: play_move acts on the state the
\* parent holds, which the child then shares.
Materialize_shared(nodes, node, child) ==
    IF nodes[child].game_state = << >>
    THEN [nodes EXCEPT
            ![child].game_state =
                << play_move(nodes[node].game_state[1], nodes[child].action[1],
                             nodes[child].action[2], nodes[child].action[3]).game_state >>,
            ![node].game_state =
                << play_move(nodes[node].game_state[1], nodes[child].action[1],
                             nodes[child].action[2], nodes[child].action[3]).game_state >>]
    ELSE nodes

\* "child.game_state = deepcopy(node.game_state)" and play_move on the
\* copy, when the child has no state yet.
Materialize(nodes, node, child) ==
    IF nodes[child].game_state = << >>
    THEN [nodes EXCEPT ![child].game_state =
            << play_move(nodes[node].game_state[1], nodes[child].action[1],
                         nodes[child].action[2], nodes[child].action[3]).game_state >>]
    ELSE nodes

\* "# SELECT": the while loop of search, from node on.  select_child
\* returning None makes "child.game_state" raise AttributeError.
RECURSIVE Descend(_, _, _)
RECURSIVE DescendInto(_, _, _, _)
DescendInto(nodes, node, search_path, child) ==
    IF child = 0
    THEN [nodes |-> nodes, search_path |-> search_path, raised |-> TRUE]
    ELSE Descend(Materialize(nodes, node, child), child,
                 Append(search_path, child))

Descend(nodes, node, search_path) ==
    IF ~is_leaf(nodes[node]) /\ ~_is_terminal(nodes[node].game_state[1])
    THEN DescendInto(nodes, node, search_path, select_child(nodes, node))
    ELSE [nodes |-> nodes, search_path |-> search_path, raised |-> FALSE]

\* MCTSNode.backup: the walk from node up the parent references, the value
\* negated at each step.
RECURSIVE backup(_, _, _)
backup(nodes, node, v) ==
    IF node = 0 THEN nodes
    ELSE backup([nodes EXCEPT ![node].visit_count = @ + 1,
                              ![node].value_sum = @ + v],
                nodes[node].parent, -v)

\* The backup without "value = -value": every node gets the leaf's value.
RECURSIVE Backup_no_flip(_, _, _, _)
Backup_no_flip(nodes, search_path, i, v) ==
    IF i = 0 THEN nodes
    ELSE Backup_no_flip([nodes EXCEPT ![search_path[i]].visit_count = @ + 1,
                                      ![search_path[i]].value_sum = @ + v],
                        search_path, i - 1, v)

\* The backup that counts the visit of the leaf alone.
BackupLeafOnly(nodes, search_path, i, v) ==
    [nodes EXCEPT ![search_path[i]].visit_count = @ + 1,
                  ![search_path[i]].value_sum = @ + v]

\* "# BACKUP": the loop of search over search_path, last to first, from
\* the i-th node on.
RECURSIVE Backup(_, _, _, _)
Backup(nodes, search_path, i, v) ==
    IF i = 0 THEN nodes
    ELSE Backup([nodes EXCEPT ![search_path[i]].visit_count = @ + 1,
                              ![search_path[i]].value_sum = @ + v],
                search_path, i - 1, -v)

\* The value of a terminal node without the test for no winner.
TerminalValue_no_draw(game_state) ==
    IF game_state.winner = get_current_player(game_state).color THEN 1
    ELSE -1

\* The value of a terminal node.
TerminalValue(game_state) ==
    IF game_state.winner = NoColor THEN 0
    ELSE IF game_state.winner = get_current_player(game_state).color THEN 1
    ELSE -1

\* "# Non-terminal leaf - EXPAND and EVALUATE": the tree with the leaf
\* expanded and the value to back up, after the one call of predict.
ExpandLeaf(nodes, search_path, prediction, valid_actions) ==
    IF valid_actions # << >>
    THEN [nodes |-> expand(nodes, search_path[Len(search_path)],
                           prediction.policy, valid_actions),
          value |-> prediction.value, predict_calls |-> 1]
    ELSE [nodes |-> nodes, value |-> 0, predict_calls |-> 1]

\* "# Get value for leaf node": a terminal leaf takes its value from the
\* winner and predict is not called.
EvaluateLeaf(nodes, search_path, evaluator, game_state) ==
    IF _is_terminal(game_state)
    THEN [nodes |-> nodes, value |-> TerminalValue(game_state),
          predict_calls |-> 0]
    ELSE ExpandLeaf(nodes, search_path, predict(evaluator, game_state),
                    _get_valid_actions(game_state))

\* The end of a pass: the backup of the value of the leaf, and what the
\* pass did (the tree as the backup found it, the value, the calls of
\* predict).
BackedUp(s, search_path, leaf) ==
    [s EXCEPT !.before = s.nodes,
              !.nodes = Backup(leaf.nodes, search_path, Len(search_path),
                               leaf.value),
              !.search_path = search_path,
              !.expanded = leaf.nodes,
              !.leaf_value = leaf.value,
              !.predict_calls = leaf.predict_calls,
              !.done = @ + 1]

\* One pass of "for _ in range(self.num_simulations)", given where the
\* selection ended.
Simulation(s, d) ==
    IF d.raised
    THEN [s EXCEPT !.phase = "raised", !.error = "AttributeError",
                   !.before = s.nodes, !.nodes = d.nodes,
                   !.search_path = d.search_path,
                   !.expanded = d.nodes, !.leaf_value = 0,
                   !.predict_calls = 0]
    ELSE BackedUp(s, d.search_path,
                  EvaluateLeaf(
                      d.nodes, d.search_path, s.evaluator,
                      d.nodes[d.search_path[Len(d.search_path)]].game_state[1]))

\* Sum of the visit counts of the lo-th to hi-th child.
RECURSIVE SumVisitsRange(_, _, _, _)
SumVisitsRange(nodes, children, lo, hi) ==
    IF lo > hi THEN 0
    ELSE IF lo = hi THEN nodes[children[lo]].visit_count
    ELSE SumVisitsRange(nodes, children, lo, (lo + hi) \div 2)
         + SumVisitsRange(nodes, children, (lo + hi) \div 2 + 1, hi)

\* "sum(child.visit_count for child in root.children.values())"
SumVisits(nodes, children) == SumVisitsRange(nodes, children, 1, Len(children))

\* "max(visit_counts)", of a node that has children.
MaxVisits(nodes, children) ==
    nodes[children[CHOOSE i \in 1 .. Len(children) :
                      \A j \in 1 .. Len(children) :
                          nodes[children[j]].visit_count
                              <= nodes[children[i]].visit_count]].visit_count

\* "visit_counts.count(max_visits)"
CountVisits(nodes, children, max_visits) ==
    Cardinality({i \in 1 .. Len(children) :
                    nodes[children[i]].visit_count = max_visits})

\* The index _get_action_probs computes for a child.
ChildIndex(nodes, child) ==
    encode_action(nodes[child].action[1], nodes[child].action[2],
                  nodes[child].action[3])

\* The children whose index is k, as places in the list of children.
ChildrenAt(nodes, children, k) ==
    {i \in 1 .. Len(children) : ChildIndex(nodes, children[i]) = k}

\* The last of a non-empty set of places.
Last(places) == CHOOSE i \in places : \A j \in places : j <= i

\* The loop of _get_action_probs over root.children.items().  The array
\* holds numerators.  With temperature 0 an entry is set, to
\* 1.0 / visit_counts.count(max_visits), for a child with max_visits
\* visits; else the entry is set for every child, to its visit count, and
\* holds what the last child with that index left, until the array is
\* divided by its sum.
SetProbs(nodes, children, temperature, max_visits) ==
    [k \in 0 .. NumActions - 1 |->
        IF temperature = 0
        THEN IF \E i \in ChildrenAt(nodes, children, k) :
                   nodes[children[i]].visit_count = max_visits
             THEN 1 ELSE 0
        ELSE IF ChildrenAt(nodes, children, k) = {} THEN 0
        ELSE nodes[children[Last(ChildrenAt(nodes, children, k))]].visit_count]

\* An array of numerators over one denominator.
Probs(num, den) == [num |-> num, den |-> den]

\* "# No visits - return uniform over valid actions".
UniformOverMask(valid_mask) ==
    IF SumOf(valid_mask) > 0
    THEN Probs(valid_mask, SumOf(valid_mask))
    ELSE Probs(Zeros, 1)

\* "# Normalize", for temperature 1.
Normalize(array) ==
    IF SumOf(array) > 0 THEN Probs(array, SumOf(array))
    ELSE Probs(array, 1)

\* _get_action_probs that spreads temperature 0 over all the children.
_get_action_probs_over_children(nodes, temperature) ==
    IF SumVisits(nodes, nodes[1].children) = 0
    THEN UniformOverMask(get_valid_actions_mask(nodes[1].game_state[1]))
    ELSE IF temperature = 0
    THEN Probs(SetProbs(nodes, nodes[1].children, 0,
                        MaxVisits(nodes, nodes[1].children)),
               Len(nodes[1].children))
    ELSE Normalize(SetProbs(nodes, nodes[1].children, temperature, 0))

\* MCTS._get_action_probs, for temperature 0 and 1; the root is nodes[1].
_get_action_probs(nodes, temperature) ==
    IF SumVisits(nodes, nodes[1].children) = 0
    THEN UniformOverMask(get_valid_actions_mask(nodes[1].game_state[1]))
    ELSE IF temperature = 0
    THEN Probs(SetProbs(nodes, nodes[1].children, 0,
                        MaxVisits(nodes, nodes[1].children)),
               CountVisits(nodes, nodes[1].children,
                           MaxVisits(nodes, nodes[1].children)))
    ELSE Normalize(SetProbs(nodes, nodes[1].children, temperature, 0))

\* np.argmax: the first index that holds the maximum.
argmax(array) ==
    CHOOSE i \in 0 .. NumActions - 1 :
        /\ \A j \in 0 .. NumActions - 1 : array[j] <= array[i]
        /\ \A j \in 0 .. i - 1 : array[j] < array[i]

\* "# Decode action" and the fallback of get_best_action: the action
\* returned, or ValueError raised.
Fallback(decoded, valid_actions) ==
    IF decoded # << >>
    THEN [raised |-> FALSE, action |-> decoded[1]]
    ELSE IF valid_actions # << >>
    THEN [raised |-> FALSE, action |-> valid_actions[1]]
    ELSE [raised |-> TRUE, action |-> << >>]

(***************************************************************************)
(* The state machine: a caller of BoopGame.play_move                       *)
(***************************************************************************)
VARIABLES
    state,             \* BoopGame.state
    last,              \* the latest call of play_move: arguments and outcome
    kittens_removed,   \* per player index, the Kittens graduate_line dropped
    played_after_win,  \* a ply was played while a winner was recorded
    calls,             \* number of play_move calls made since Init
    search,            \* a call of MCTS.get_best_action on state
    codec,             \* a chain of encode_action and decode_action calls
    moved              \* the latest call of Board.move_piece on state.board

vars == <<state, last, kittens_removed, played_after_win, calls, search, codec,
          moved>>

\* The number of play_move calls explored from each starting position.
MaxCalls == 2

\* Two games, as the lists of play_move calls that make them (every call
\* succeeds).  Orange graduates three Kittens on ply 7 in both.
\* Game1: Orange graduates Cat-Cat-Kitten on ply 15 and wins on ply 21.
Game1 ==
    << <<0, 1, KITTEN>>, <<5, 0, KITTEN>>, <<0, 3, KITTEN>>, <<5, 2, KITTEN>>,
       <<0, 4, KITTEN>>, <<5, 4, KITTEN>>, <<0, 3, KITTEN>>, <<5, 5, KITTEN>>,
       <<2, 1, CAT>>, <<4, 0, KITTEN>>, <<2, 3, CAT>>, <<4, 5, KITTEN>>,
       <<2, 4, CAT>>, <<4, 2, KITTEN>>, <<2, 3, KITTEN>>, <<5, 4, KITTEN>>,
       <<2, 2, CAT>>, <<5, 5, KITTEN>>, <<2, 1, CAT>>, <<5, 4, KITTEN>>,
       <<2, 2, CAT>> >>

\* Game2: after ply 16 Orange has Kitten Cat _ Cat Kitten on row 2.
Game2 ==
    << <<0, 1, KITTEN>>, <<5, 0, KITTEN>>, <<0, 3, KITTEN>>, <<5, 2, KITTEN>>,
       <<0, 4, KITTEN>>, <<5, 4, KITTEN>>, <<0, 3, KITTEN>>, <<5, 5, KITTEN>>,
       <<2, 1, CAT>>, <<4, 0, KITTEN>>, <<2, 0, KITTEN>>, <<4, 5, KITTEN>>,
       <<2, 3, CAT>>, <<4, 2, KITTEN>>, <<2, 4, KITTEN>>, <<5, 4, KITTEN>>,
       <<2, 2, CAT>> >>

\* Game3: after ply 11 Orange has Kittens on (0,0), (0,1), (0,3) and on
\* (2,1), (2,2), (2,4); Gray's ply 12 pushes (0,3) to (0,2), Orange's ply 13
\* completes row 2 while row 0 is complete too.
Game3 ==
    << <<2, 1, KITTEN>>, <<5, 0, KITTEN>>, <<2, 3, KITTEN>>, <<5, 2, KITTEN>>,
       <<2, 4, KITTEN>>, <<5, 4, KITTEN>>, <<0, 0, KITTEN>>, <<5, 5, KITTEN>>,
       <<0, 2, KITTEN>>, <<4, 0, KITTEN>>, <<0, 3, KITTEN>>, <<0, 4, KITTEN>>,
       <<2, 3, KITTEN>> >>

\* Game4: sixteen Kittens placed, none pushed off the board and no line of
\* three made; Orange is to move and has an empty pool.
Game4 ==
    << <<5, 2, KITTEN>>, <<3, 1, KITTEN>>, <<5, 3, KITTEN>>, <<2, 1, KITTEN>>,
       <<1, 1, KITTEN>>, <<5, 5, KITTEN>>, <<3, 2, KITTEN>>, <<1, 2, KITTEN>>,
       <<3, 4, KITTEN>>, <<0, 0, KITTEN>>, <<1, 3, KITTEN>>, <<5, 2, KITTEN>>,
       <<0, 5, KITTEN>>, <<5, 3, KITTEN>>, <<1, 2, KITTEN>>, <<2, 4, KITTEN>> >>

\* Game5: Game1 played on by callers that do not ask is_game_over.  Orange,
\* the winner on record, pushes two of its three Cats out of their row on
\* ply 22, so the turn passes to Gray; Gray graduates three Kittens on ply
\* 23 and completes three Cats in row 5 on ply 31.
Game5 ==
    Game1 \o
    << <<1, 1, CAT>>, <<3, 2, KITTEN>>, <<0, 4, KITTEN>>, <<5, 1, CAT>>,
       <<0, 0, KITTEN>>, <<5, 3, CAT>>, <<5, 0, KITTEN>>, <<3, 5, KITTEN>>,
       <<5, 4, KITTEN>>, <<5, 2, CAT>> >>

\* The starting positions: the new game and positions of the five games.
Openings ==
    { SubSeq(Game1, 1, 0), SubSeq(Game1, 1, 6), SubSeq(Game1, 1, 20),
      SubSeq(Game2, 1, 16), SubSeq(Game3, 1, 11), SubSeq(Game4, 1, 16),
      SubSeq(Game5, 1, 30) }

\* The history a call adds to: the Kittens the acting player lost to
\* graduation, and whether a ply was played with a winner on record.
Record(acc, r) ==
    [game_state |-> r.game_state,
     kittens_removed |->
        [acc.kittens_removed EXCEPT
            ![acc.game_state.current_player_idx] = @ + r.kittens_graduated],
     played_after_win |->
        acc.played_after_win \/ (r.result /\ acc.game_state.winner # NoColor)]

\* BoopGame() followed by the calls of moves, in order.
RECURSIVE Replay(_, _, _)
Replay(acc, moves, i) ==
    IF i > Len(moves) THEN acc
    ELSE LET next == Record(acc, play_move(acc.game_state, moves[i][1],
                                           moves[i][2], moves[i][3]))
         IN  \* every call of the two games succeeds: move_count counts them
             IF next.game_state.move_count = i
             THEN Replay(next, moves, i + 1)
             ELSE acc

NewGame ==
    [game_state |-> NewGameState,
     kittens_removed |-> [i \in 0 .. 1 |-> 0],
     played_after_win |-> FALSE]

\* No call made yet.
NoCall(game_state) ==
    [called |-> FALSE, row |-> 0, col |-> 0, piece_type |-> KITTEN,
     before |-> game_state, out |-> Rejected(game_state)]

\* No call of move_piece made yet.
NoMove ==
    [called |-> FALSE, from |-> <<0, 0>>, to |-> <<0, 0>>, before |-> EmptyGrid,
     returned |-> None, calls |-> 0]

\* No search running.
NoSearch ==
    [phase |-> "idle", error |-> "", nodes |-> << >>, before |-> << >>,
     search_path |-> << >>, expanded |-> << >>, leaf_value |-> 0,
     predict_calls |-> 0, num_simulations |-> 0, done |-> 0,
     temperature |-> 0, evaluator |-> [policy |-> "flat", value |-> 0],
     action_probs |-> Probs(Zeros, 1), root_value |-> Ratio(0, 1),
     action_idx |-> 0, action |-> << >>]

Init ==
    \E moves \in Openings :
        LET at == Replay(NewGame, moves, 1) IN
        /\ state = at.game_state
        /\ kittens_removed = at.kittens_removed
        /\ played_after_win = at.played_after_win
        /\ last = NoCall(at.game_state)
        /\ calls = 0
        /\ search = NoSearch
        /\ codec = << >>
        /\ moved = NoMove

\* The positions a caller passes: the cells of the top three rows, where
\* the games are played, four cells next to Gray's pieces at the bottom
\* edge, and two positions off the board.
OffBoard == { <<-1, 0>>, <<2, SIZE>> }

Positions ==
    ((0 .. 2) \X (0 .. SIZE - 1))
    \cup { <<4, 1>>, <<5, 1>>, <<5, 2>>, <<5, 5>> }
    \cup OffBoard

\* game.play_move(row, col, piece_type).  An exception leaving the call
\* leaves the state as the call had changed it up to there.
Play(row, col, piece_type) ==
    /\ calls < MaxCalls
    /\ last' = [called |-> TRUE, row |-> row, col |-> col,
                piece_type |-> piece_type, before |-> state,
                out |-> play_move(state, row, col, piece_type)]
    /\ LET next == Record([game_state |-> state,
                           kittens_removed |-> kittens_removed,
                           played_after_win |-> played_after_win], last'.out)
       IN  /\ state' = next.game_state
           /\ kittens_removed' = next.kittens_removed
           /\ played_after_win' = next.played_after_win
    /\ calls' = calls + 1
    /\ UNCHANGED <<search, codec, moved>>

Next ==
    \E pos \in Positions, piece_type \in PieceType :
        Play(pos[1], pos[2], piece_type)

Spec == Init /\ [][Next]_vars

(***************************************************************************)
(* The state machine of a search: MCTS(neural_net, num_simulations)        *)
(* .get_best_action(state, temperature = temperature)                      *)
(***************************************************************************)
\* The largest simulation budget explored.
MaxSimulations == 4

Temperatures == {0, 1}

\* The states searched: the new game; Game1 one ply before Orange wins and
\* with the win on record; Game2 before its last ply; Game4 with the empty
\* pool; Game5 with Orange's win on record and Gray to move.
SearchRoots ==
    { SubSeq(Game1, 1, 0), SubSeq(Game1, 1, 20), SubSeq(Game1, 1, 21),
      SubSeq(Game2, 1, 16), SubSeq(Game4, 1, 16), SubSeq(Game5, 1, 22) }

\* "root = MCTSNode(game_state=deepcopy(game_state))"
NewSearch(game_state, evaluator, num_simulations, temperature) ==
    [phase |-> "searching", error |-> "",
     nodes |-> << MCTSNode(<<game_state>>, 0, Ratio(0, 1), << >>) >>,
     before |-> << >>, search_path |-> << >>, expanded |-> << >>,
     leaf_value |-> 0, predict_calls |-> 0,
     num_simulations |-> num_simulations, done |-> 0,
     temperature |-> temperature, evaluator |-> evaluator,
     action_probs |-> Probs(Zeros, 1), root_value |-> Ratio(0, 1),
     action_idx |-> 0, action |-> << >>]

SearchInit ==
    \E at \in {Replay(NewGame, moves, 1) : moves \in SearchRoots},
       evaluator \in Evaluators,
       num_simulations \in 0 .. MaxSimulations, temperature \in Temperatures :
        /\ state = at.game_state
        /\ kittens_removed = at.kittens_removed
        /\ played_after_win = at.played_after_win
        /\ last = NoCall(at.game_state)
        /\ calls = 0
        /\ search = NewSearch(at.game_state, evaluator, num_simulations,
                              temperature)
        /\ codec = << >>
        /\ moved = NoMove

\* One simulation: selection down to a leaf, its value, the backup.
Simulate ==
    /\ search.phase = "searching"
    /\ search.done < search.num_simulations
    /\ search' = Simulation(search, Descend(search.nodes, 1, <<1>>))
    /\ UNCHANGED <<state, last, kittens_removed, played_after_win, calls, codec,
                   moved>>

\* "action_probs = self._get_action_probs(root, temperature)" and the
\* return of search.
Return ==
    /\ search.phase = "searching"
    /\ search.done = search.num_simulations
    /\ search' = [search EXCEPT
                    !.phase = "returned",
                    !.action_probs = _get_action_probs(search.nodes,
                                                       search.temperature),
                    !.root_value = value(search.nodes[1])]
    /\ UNCHANGED <<state, last, kittens_removed, played_after_win, calls, codec,
                   moved>>

\* What get_best_action does with the index it chose.
Chosen(s, action_idx, outcome) ==
    [s EXCEPT !.phase = IF outcome.raised THEN "raised" ELSE "chosen",
              !.error = IF outcome.raised THEN "ValueError" ELSE "",
              !.action_idx = action_idx,
              !.action = outcome.action]

\* "# Choose action based on probabilities": np.argmax with temperature 0,
\* else np.random.choice, which draws an index of positive probability.
Choose(action_idx) ==
    /\ search.phase = "returned"
    /\ IF search.temperature = 0
       THEN action_idx = argmax(search.action_probs.num)
       ELSE search.action_probs.num[action_idx] > 0
    /\ search' = Chosen(search, action_idx,
                        Fallback(decode_action(action_idx),
                                 _get_valid_actions(state)))
    /\ UNCHANGED <<state, last, kittens_removed, played_after_win, calls, codec,
                   moved>>

SearchNext ==
    \/ Simulate
    \/ Return
    \/ \E action_idx \in 0 .. NumActions - 1 : Choose(action_idx)

SearchSpec == SearchInit /\ [][SearchNext]_vars

(***************************************************************************)
(* The state machine of the action encoding: encode_action and             *)
(* decode_action applied in turn to an index or an action                  *)
(***************************************************************************)
\* The number of calls made on one input.
MaxCodecCalls == 2

\* What a call is given or returns: an index, an action, or None.  inline
\* is the index MCTSNode.expand computes for the action encoded.
Index(index, inline) ==
    [kind |-> "index", index |-> index, action |-> << >>, inline |-> inline]

Action(action) ==
    [kind |-> "action", index |-> 0, action |-> action, inline |-> 0]

Nothing == [kind |-> "none", index |-> 0, action |-> << >>, inline |-> 0]

CodecInit ==
    /\ state = NewGameState
    /\ kittens_removed = NewGame.kittens_removed
    /\ played_after_win = FALSE
    /\ last = NoCall(NewGameState)
    /\ calls = 0
    /\ search = NoSearch
    /\ moved = NoMove
    /\ \/ \E action_idx \in 0 .. NumActions - 1 :
             codec = << Index(action_idx, action_idx) >>
       \/ \E row \in 0 .. SIZE - 1, col \in 0 .. SIZE - 1, piece_type \in PieceType :
             codec = << Action(<<row, col, piece_type>>) >>

\* net.encode_action(row, col, piece_type) on the action held.
Encode ==
    /\ Len(codec) <= MaxCodecCalls
    /\ codec[Len(codec)].kind = "action"
    /\ codec' = Append(codec,
                       Index(encode_action(codec[Len(codec)].action[1],
                                           codec[Len(codec)].action[2],
                                           codec[Len(codec)].action[3]),
                             expand_action_idx(codec[Len(codec)].action)))
    /\ UNCHANGED <<state, last, kittens_removed, played_after_win, calls, search,
                   moved>>

\* What decode_action returned.
Decoded(decoded) ==
    IF decoded = << >> THEN Nothing ELSE Action(decoded[1])

\* net.decode_action(action_idx) on the index held.
Decode ==
    /\ Len(codec) <= MaxCodecCalls
    /\ codec[Len(codec)].kind = "index"
    /\ codec' = Append(codec, Decoded(decode_action(codec[Len(codec)].index)))
    /\ UNCHANGED <<state, last, kittens_removed, played_after_win, calls, search,
                   moved>>

CodecNext == Encode \/ Decode

CodecSpec == CodecInit /\ [][CodecNext]_vars

(***************************************************************************)
(* The state machine of a board: a caller of Board.move_piece              *)
(***************************************************************************)
\* The number of move_piece calls explored from each starting board.
MaxMoves == 1

\* The boards the calls are made on: those of three positions of the
\* games.
MovedBoards ==
    { SubSeq(Game1, 1, 20), SubSeq(Game4, 1, 16), SubSeq(Game5, 1, 30) }

BoardInit ==
    \E at \in {Replay(NewGame, moves, 1) : moves \in MovedBoards} :
        /\ state = at.game_state
        /\ kittens_removed = at.kittens_removed
        /\ played_after_win = at.played_after_win
        /\ last = NoCall(at.game_state)
        /\ calls = 0
        /\ search = NoSearch
        /\ codec = << >>
        /\ moved = NoMove

\* What the call found and returned.
Moved(from, to, before, out, n) ==
    [called |-> TRUE, from |-> from, to |-> to, before |-> before,
     returned |-> out.piece, calls |-> n]

\* state.board.move_piece(from_row, from_col, to_row, to_col), from a cell
\* of the board to one of the cells around it.
Move(from_row, from_col, to_row, to_col) ==
    /\ moved.calls < MaxMoves
    /\ is_valid_position(to_row, to_col)
    /\ state' = [state EXCEPT !.board =
                    move_piece(state.board, from_row, from_col,
                               to_row, to_col).grid]
    /\ moved' = Moved(<<from_row, from_col>>, <<to_row, to_col>>, state.board,
                      move_piece(state.board, from_row, from_col,
                                 to_row, to_col),
                      moved.calls + 1)
    /\ UNCHANGED <<last, kittens_removed, played_after_win, calls, search, codec>>

BoardNext ==
    \E from_row \in 0 .. SIZE - 1, from_col \in 0 .. SIZE - 1,
       i \in 1 .. Len(directions) :
        Move(from_row, from_col, from_row + directions[i][1],
             from_col + directions[i][2])

BoardSpec == BoardInit /\ [][BoardNext]_vars

(***************************************************************************)
(* Vocabulary of the properties, defined on the board directly             *)
(***************************************************************************)
Cells == (0 .. SIZE - 1) \X (0 .. SIZE - 1)

OnBoard(pos) == pos \in Cells

At(grid, pos) == grid[pos[1]][pos[2]]

\* Number of pieces of the type and color on the board.
BoardCount(grid, type, color) ==
    Cardinality({pos \in Cells : At(grid, pos) = Piece(type, color)})

\* Number of pieces of the type in a pool or reserve.
ListCount(list, type) ==
    Cardinality({i \in 1 .. Len(list) : list[i].type = type})

\* The latest call returned True.
Succeeded == last.called /\ last.out.result

\* Index and color of the player who made the latest call.
Mover == last.before.current_player_idx

MoverColor == last.before.players[Mover].color

\* The runs of three cells: a first cell and one of the four line
\* directions, all three cells on the board.  family is the place of the
\* direction in the scan: 0 horizontal, 1 vertical, 2 down-right, 3 down-left.
LineDirs == << <<0, 1>>, <<1, 0>>, <<1, 1>>, <<1, -1>> >>

RunCells(run) ==
    LET d == LineDirs[run.family + 1] IN
    [i \in 1 .. 3 |-> <<run.row + (i - 1) * d[1], run.col + (i - 1) * d[2]>>]

Runs ==
    {run \in [family : 0 .. 3, row : 0 .. SIZE - 1, col : 0 .. SIZE - 1] :
        \A i \in 1 .. 3 : OnBoard(RunCells(run)[i])}

\* Place of a run in the fixed scan order.
ScanRank(run) == (run.family * SIZE + run.row) * SIZE + run.col

\* All three cells of the run hold pieces of color.
RunOf(grid, run, color) ==
    \A i \in 1 .. 3 : At(grid, RunCells(run)[i]).color = color

RunCount(grid, run, type) ==
    Cardinality({i \in 1 .. 3 : At(grid, RunCells(run)[i]).type = type})

\* The board grid with the cells of the set emptied.
Emptied(grid, cells) ==
    [row \in 0 .. SIZE - 1 |-> [col \in 0 .. SIZE - 1 |->
        IF <<row, col>> \in cells THEN None ELSE grid[row][col]]]

(***************************************************************************)
(* C1  Conservation                                                        *)
(***************************************************************************)
\* C1: in every reachable state, for each player, Cats in pool + Cats in
\* reserve + Cats on board = 8, and Kittens in pool + Kittens on board =
\* 8 minus the Kittens of that player removed by graduation so far; no
\* count of either rank exceeds 8.
C1_Conservation ==
    \A i \in 0 .. 1 :
        LET p == state.players[i]
            cats == ListCount(p.pool, CAT) + ListCount(p.reserve, CAT)
                    + BoardCount(state.board, CAT, p.color)
            kittens == ListCount(p.pool, KITTEN)
                       + BoardCount(state.board, KITTEN, p.color)
        IN  /\ cats = 8
            /\ kittens = 8 - kittens_removed[i]
            /\ kittens + ListCount(p.reserve, KITTEN) <= 8
            /\ kittens_removed[i] >= 0

\* A ply graduated a run of a player who had lost Kittens to an earlier
\* graduation already.
C1_Witness ==
    /\ Succeeded
    /\ last.out.kittens_graduated > 0
    /\ kittens_removed[Mover] > last.out.kittens_graduated

(***************************************************************************)
(* C2  A rejected call changes nothing                                     *)
(***************************************************************************)
\* The cell is on the board and empty.
EmptyCell(grid, row, col) ==
    /\ row \in 0 .. SIZE - 1
    /\ col \in 0 .. SIZE - 1
    /\ grid[row][col] = None

\* The pool of the player to move holds a piece of the type.
PoolHolds(game_state, type) ==
    ListCount(game_state.players[game_state.current_player_idx].pool, type) > 0

\* C2: play_move returns False without raising and leaves the whole state
\* unchanged whenever the position is not an empty on-board cell or the
\* pool of the player to move holds no piece of the requested type.
C2_RejectedCallChangesNothing ==
    (/\ last.called
     /\ \/ ~EmptyCell(last.before.board, last.row, last.col)
        \/ ~PoolHolds(last.before, last.piece_type))
    => /\ ~last.out.result
       /\ ~last.out.raised
       /\ last.out.game_state = last.before
       /\ state = last.before

\* A call on an occupied cell of the board, for a type the pool holds.
C2_Witness ==
    /\ last.called
    /\ OnBoard(<<last.row, last.col>>)
    /\ ~EmptyCell(last.before.board, last.row, last.col)
    /\ PoolHolds(last.before, last.piece_type)
    /\ ~last.out.result

(***************************************************************************)
(* C3  Winner recorded or turn switched                                    *)
(***************************************************************************)
\* C3: after every successful play_move either win detection found a
\* winner, the mover's color is recorded as winner and the current player
\* is not switched, or it found none and the current player is the other
\* one; and while no ply was played with a winner on record, a recorded
\* winner is the color of the current player.
C3_WinnerOrSwitch ==
    /\ Succeeded =>
        \/ /\ last.out.winner # NoColor
           /\ state.winner = MoverColor
           /\ state.current_player_idx = Mover
        \/ /\ last.out.winner = NoColor
           /\ state.winner = last.before.winner
           /\ state.current_player_idx = 1 - Mover
    /\ (~played_after_win /\ state.winner # NoColor)
        => state.winner = state.players[state.current_player_idx].color

\* A ply of a game without a winner ended with the mover as winner.
C3_Witness ==
    /\ Succeeded
    /\ last.before.winner = NoColor
    /\ ~played_after_win
    /\ state.winner = MoverColor

(***************************************************************************)
(* C4  An all-Cat run survives graduation and wins                         *)
(***************************************************************************)
\* The boards of the latest call: after the placement, after the pushes,
\* after the graduation step.
Placed == last.out.after_place.board

Pushed == last.out.after_boop.board

Graduated == last.out.after_graduation.board

\* The run holds three Cats of the mover on the board grid.
CatRun(grid, run) ==
    RunOf(grid, run, MoverColor) /\ RunCount(grid, run, CAT) = 3

\* The run holds three pieces of the mover, a Kitten among them.
KittenRun(grid, run) ==
    RunOf(grid, run, MoverColor) /\ RunCount(grid, run, KITTEN) >= 1

\* C4: in every successful ply, if after push resolution the mover has a
\* run of three own Cats, no cell of that run is emptied by the graduation
\* step and the ply ends with the mover recorded as winner, also when a
\* Kitten-containing run of the mover shares a cell with it.
C4_CatRunSurvivesAndWins ==
    Succeeded =>
        \A run \in Runs :
            CatRun(Pushed, run) =>
                /\ \A i \in 1 .. 3 :
                      At(Graduated, RunCells(run)[i]) = At(Pushed, RunCells(run)[i])
                /\ state.winner = MoverColor

(***************************************************************************)
(* C5  Win or graduation-eligible, by the ranks of the run                 *)
(***************************************************************************)
\* C5: for a run of three pieces of the mover, if all three are Cats, win
\* detection reports the mover and the run is not graduation-eligible; if
\* one is a Kitten, the run is graduation-eligible and is no reason for a
\* win: win detection reports a winner only for a run of three Cats (or
\* eight Cats on the board).
C5_WinOrEligible ==
    Succeeded =>
        /\ \A run \in Runs :
              /\ CatRun(Graduated, run) => last.out.winner = MoverColor
              /\ CatRun(Pushed, run) => ~_line_has_kitten(Pushed, RunCells(run))
              /\ KittenRun(Pushed, run) => _line_has_kitten(Pushed, RunCells(run))
              /\ KittenRun(Graduated, run) => ~AllCats(Graduated, RunCells(run))
        /\ last.out.winner # NoColor =>
              /\ last.out.winner = MoverColor
              /\ \/ \E run \in Runs : CatRun(Graduated, run)
                 \/ BoardCount(Graduated, CAT, MoverColor) = 8

\* After the pushes the mover had a run of three Cats and a run with a
\* Kitten in it on the board.
C5_Witness ==
    /\ Succeeded
    /\ \E run \in Runs : CatRun(Pushed, run)
    /\ \E run \in Runs : KittenRun(Pushed, run)

(***************************************************************************)
(* C6  One graduation per ply, the first run in scan order                 *)
(***************************************************************************)
\* The graduation-eligible runs after the pushes.
Eligible == {run \in Runs : KittenRun(Pushed, run)}

\* The eligible run that comes first in the scan order.
FirstEligible ==
    CHOOSE run \in Eligible : \A other \in Eligible : ScanRank(run) <= ScanRank(other)

CellSet(run) == {RunCells(run)[i] : i \in 1 .. 3}

\* C6: a successful ply graduates at most one run, the first
\* Kitten-containing run of the mover in the scan order (horizontal runs
\* row-major, then vertical, then down-right, then down-left diagonals);
\* every cell outside that run, so every other eligible run that shares no
\* cell with it, and every run of the opponent, keeps its piece.
C6_FirstRunOnly ==
    Succeeded =>
        IF Eligible = {}
        THEN last.out.graduated = << >> /\ Graduated = Pushed
        ELSE /\ last.out.graduated = RunCells(FirstEligible)
             /\ Graduated = Emptied(Pushed, CellSet(FirstEligible))

\* Two eligible runs that share no cell: one graduated, the other stays.
C6_Witness ==
    /\ Succeeded
    /\ \E run \in Eligible :
          /\ CellSet(run) \cap CellSet(FirstEligible) = {}
          /\ KittenRun(Graduated, run)
          /\ KittenRun(state.board, run)

(***************************************************************************)
(* C7  What graduating a run does                                          *)
(***************************************************************************)
\* C7: graduating a run with c Cats and k Kittens (c + k = 3, k >= 1)
\* empties exactly its three cells, adds exactly c Cats to the owner's
\* pool, removes the k Kittens from every zone, then moves exactly 3 pieces
\* from the owner's reserve to the pool if the reserve holds at least 3 and
\* none otherwise; the opponent's pool and reserve are unchanged.
C7_GraduationEffect ==
    (Succeeded /\ last.out.graduated # << >>) =>
        LET line == last.out.graduated
            cells == {line[i] : i \in 1 .. 3}
            c == Cardinality({i \in 1 .. 3 : At(Pushed, line[i]).type = CAT})
            k == Cardinality({i \in 1 .. 3 : At(Pushed, line[i]).type = KITTEN})
            owner == last.out.after_boop.players[Mover]
            after == last.out.after_graduation.players[Mover]
            released == IF Len(owner.reserve) >= 3 THEN 3 ELSE 0
            Kittens(player, grid) ==
                ListCount(player.pool, KITTEN) + ListCount(player.reserve, KITTEN)
                + BoardCount(grid, KITTEN, player.color)
        IN  /\ c + k = 3 /\ k >= 1
            /\ Graduated = Emptied(Pushed, cells)
            /\ Len(after.reserve) = Len(owner.reserve) - released
            /\ after.reserve = SubSeq(owner.reserve, 1, Len(owner.reserve) - released)
            /\ Len(after.pool) = Len(owner.pool) + c + released
            /\ ListCount(after.pool, CAT) = ListCount(owner.pool, CAT) + c + released
            /\ ListCount(after.pool, KITTEN) = ListCount(owner.pool, KITTEN)
            /\ Kittens(after, Graduated) = Kittens(owner, Pushed) - k
            /\ last.out.after_graduation.players[1 - Mover]
                  = last.out.after_boop.players[1 - Mover]
            /\ last.out.cats_returned = c
            /\ last.out.kittens_graduated = k

\* A run with a Cat and a Kitten graduated while the reserve held fewer
\* than 3 pieces: nothing was released.
C7_Witness ==
    /\ Succeeded
    /\ last.out.graduated # << >>
    /\ last.out.cats_returned >= 1
    /\ Len(last.out.after_boop.players[Mover].reserve) < 3
    /\ Len(last.out.after_graduation.players[Mover].reserve) > 0

(***************************************************************************)
(* C8  Push correctness                                                    *)
(***************************************************************************)
\* The position of the latest placement and the piece placed there.
PlacedAt == <<last.row, last.col>>

PlacedPiece == At(Placed, PlacedAt)

Abs(n) == IF n < 0 THEN -n ELSE n

\* The cells next to pos, orthogonally or diagonally.
Neighbours(pos) ==
    {n \in Cells : n # pos /\ Abs(n[1] - pos[1]) <= 1 /\ Abs(n[2] - pos[2]) <= 1}

\* The position one step beyond n, away from pos.
Beyond(pos, n) == <<2 * n[1] - pos[1], 2 * n[2] - pos[2]>>

\* The rank rule: a Kitten cannot push a Cat, every other pair can.
CanPush(pusher, target) == ~(pusher.type = KITTEN /\ target.type = CAT)

\* The neighbours of the placement that hold a piece of a rank it can push.
Pushable ==
    {n \in Neighbours(PlacedAt) :
        At(Placed, n) # None /\ CanPush(PlacedPiece, At(Placed, n))}

\* Those with the cell beyond on the board and empty, and those with the
\* position beyond off the board.
Free == {n \in Pushable : OnBoard(Beyond(PlacedAt, n))
                          /\ At(Placed, Beyond(PlacedAt, n)) = None}

AtEdge == {n \in Pushable : ~OnBoard(Beyond(PlacedAt, n))}

\* C8: a pushable piece next to the placement with an empty on-board cell
\* beyond it ends push resolution one cell further from the placement; with
\* the position beyond off the board it leaves the board and joins the
\* pool of the player of its color, which gains exactly one piece of that
\* rank for every piece so removed.
C8_PushCorrect ==
    Succeeded =>
        /\ \A n \in Free :
              /\ At(Pushed, Beyond(PlacedAt, n)) = At(Placed, n)
              /\ At(Pushed, n) = None
        /\ \A n \in AtEdge : At(Pushed, n) = None
        /\ \A i \in 0 .. 1 :
              LET was == last.out.after_place.players[i]
                  now == last.out.after_boop.players[i]
                  Own(piece) == piece.color = was.color
              IN  /\ now.pool = was.pool \o SelectSeq(last.out.booped_off, Own)
                  /\ now.reserve = was.reserve
                  /\ \A type \in PieceType :
                        ListCount(now.pool, type) = ListCount(was.pool, type)
                            + Cardinality({n \in AtEdge :
                                  At(Placed, n) = Piece(type, was.color)})

\* One placement pushed a piece of the other player off the board and
\* moved another piece one cell.
C8_Witness ==
    /\ Succeeded
    /\ Free # {}
    /\ \E n \in AtEdge : At(Placed, n).color # MoverColor

(***************************************************************************)
(* C9  Line-of-two blocking                                                *)
(***************************************************************************)
\* The neighbours of the placement that hold a piece and have an occupied
\* on-board cell beyond them.
Braced ==
    {n \in Neighbours(PlacedAt) :
        /\ At(Placed, n) # None
        /\ OnBoard(Beyond(PlacedAt, n))
        /\ At(Placed, Beyond(PlacedAt, n)) # None}

\* C9: a neighbour of the placement with an occupied on-board cell one step
\* beyond it is neither moved nor removed by push resolution, whatever the
\* ranks and colors.
C9_BracedStays ==
    Succeeded =>
        \A n \in Braced :
            /\ At(Pushed, n) = At(Placed, n)
            /\ At(Pushed, Beyond(PlacedAt, n)) = At(Placed, Beyond(PlacedAt, n))

\* A braced piece of a rank the placed piece can push, braced by a piece of
\* the other color.
C9_Witness ==
    /\ Succeeded
    /\ \E n \in Braced \cap Pushable :
          At(Placed, Beyond(PlacedAt, n)).color # At(Placed, n).color

(***************************************************************************)
(* C10  Rank restriction                                                   *)
(***************************************************************************)
\* C10: placing a Kitten changes the position of no Cat of either color
\* during push resolution: every cell that holds a Cat before or after the
\* pushes holds the same piece before and after.
C10_KittenMovesNoCat ==
    (Succeeded /\ last.piece_type = KITTEN) =>
        \A pos \in Cells :
            (At(Placed, pos).type = CAT \/ At(Pushed, pos).type = CAT)
                => At(Pushed, pos) = At(Placed, pos)

\* A Kitten placed next to a Cat that has nothing behind it.
C10_Witness ==
    /\ Succeeded
    /\ last.piece_type = KITTEN
    /\ \E n \in Neighbours(PlacedAt) :
          /\ At(Placed, n).type = CAT
          /\ n \notin Braced

(***************************************************************************)
(* C11  Game over                                                          *)
(***************************************************************************)
\* The three conditions of the game being over, read off the state.
WinnerRecorded(game_state) == game_state.winner # NoColor

PoolEmpty(game_state) ==
    game_state.players[game_state.current_player_idx].pool = << >>

BoardFull(game_state) ==
    \A pos \in Cells : At(game_state.board, pos) # None

\* C11: in every state, is_game_over is true exactly when a winner is
\* recorded, or the pool of the player to move is empty, or no cell of the
\* board is empty; and MCTS._is_terminal gives the same answer as
\* is_game_over, on the state before the latest call as well.
C11_GameOverExactly ==
    /\ is_game_over(state)
          <=> (WinnerRecorded(state) \/ PoolEmpty(state) \/ BoardFull(state))
    /\ _is_terminal(state) = is_game_over(state)
    /\ _is_terminal(last.before) = is_game_over(last.before)

\* No winner and empty cells left, and the player to move has nothing to
\* play: the game is over by the pool alone, and a call was made there.
C11_Witness ==
    /\ last.called
    /\ is_game_over(state)
    /\ ~WinnerRecorded(state)
    /\ ~BoardFull(state)
    /\ PoolEmpty(state)

(***************************************************************************)
(* C13  Legal moves                                                        *)
(***************************************************************************)
\* The members of a list.
Members(list) == {list[i] : i \in 1 .. Len(list)}

\* Every empty cell paired with every rank in the pool of the player to
\* move.
EmptyCellsTimesRanks(game_state) ==
    {<<pos[1], pos[2], type>> :
        pos \in {c \in Cells : At(game_state.board, c) = None},
        type \in {t \in PieceType : PoolHolds(game_state, t)}}

Searching == search.phase # "idle"

\* The nodes whose parent is the root, by their back-references.
RootChildren == {c \in 1 .. Len(search.nodes) : search.nodes[c].parent = 1}

\* Sum of the visit counts of the nodes lo .. hi that have the root as
\* parent.
RECURSIVE RootChildVisitsIn(_, _)
RootChildVisitsIn(lo, hi) ==
    IF lo > hi THEN 0
    ELSE IF lo = hi
    THEN IF search.nodes[lo].parent = 1 THEN search.nodes[lo].visit_count ELSE 0
    ELSE RootChildVisitsIn(lo, (lo + hi) \div 2)
         + RootChildVisitsIn((lo + hi) \div 2 + 1, hi)

RootChildVisits == RootChildVisitsIn(1, Len(search.nodes))

\* The root is not terminal: no winner, a piece to play, an empty cell.
RootNotTerminal ==
    ~(WinnerRecorded(state) \/ PoolEmpty(state) \/ BoardFull(state))

\* The index of an action in the action vector: 6 * row + col for a
\* Kitten, 36 more for a Cat.
IndexOf(action) ==
    6 * action[1] + action[2] + (IF action[3] = CAT THEN 36 ELSE 0)

\* The legal actions of the state searched, and their indices.
LegalActions == EmptyCellsTimesRanks(state)

LegalIndices == {IndexOf(action) : action \in LegalActions}

\* The vector search returned, entry k being P(k) / search.action_probs.den.
P(k) == search.action_probs.num[k]

Den == search.action_probs.den

Indices == 0 .. NumActions - 1

(***************************************************************************)
(* C14  Visit conservation                                                 *)
(***************************************************************************)
\* C14 as claimed: when search returns after N simulations from a root
\* that is not terminal, the visit counts of the root's children sum to N.
C14_ChildVisitsEqualBudget ==
    (search.phase = "returned" /\ RootNotTerminal)
        => RootChildVisits = search.num_simulations

\* C14 as amended: from a root that is not terminal, after n simulations
\* the visit counts of the root's children sum to n - 1 (to 0 when n is 0):
\* the first simulation expands the root and visits no child, every later
\* one visits exactly one child of the root.  This holds after each
\* simulation, hence with n the budget N when search returns.
C14_ChildVisitsOneLess ==
    (Searching /\ RootNotTerminal)
        => /\ RootChildVisits = (IF search.done = 0 THEN 0 ELSE search.done - 1)
           /\ search.phase \in {"returned", "chosen"}
                 => search.done = search.num_simulations

\* search returned after three simulations, two of them through one child.
C14_Witness ==
    /\ search.phase = "returned"
    /\ RootNotTerminal
    /\ search.num_simulations = 3
    /\ RootChildVisits = 2
    /\ \E c \in RootChildren : search.nodes[c].visit_count = 2

(***************************************************************************)
(* C15  Ties                                                               *)
(***************************************************************************)
\* The place of a child among the children of its parent.
PlaceOf(nodes, parent, child) ==
    CHOOSE i \in 1 .. Len(nodes[parent].children) :
        nodes[parent].children[i] = child

\* The child is the first of the children of parent, in the order of the
\* list, that no child outscores: none has a greater score and every one
\* before it has a smaller score.  Scores are those of nodes.
FirstBest(nodes, parent, child) ==
    /\ \E i \in 1 .. Len(nodes[parent].children) :
          nodes[parent].children[i] = child
    /\ \A i \in 1 .. Len(nodes[parent].children) :
          /\ ~ScoreGreater(nodes[nodes[parent].children[i]], nodes[child],
                           nodes[parent].visit_count)
          /\ i < PlaceOf(nodes, parent, child)
                => ScoreGreater(nodes[child], nodes[nodes[parent].children[i]],
                                nodes[parent].visit_count)

\* The children of a node are its state's legal moves, in their order.
ChildrenInLegalOrder(nodes, parent) ==
    /\ Len(nodes[parent].children) = Len(get_valid_moves(nodes[parent].game_state[1]))
    /\ \A i \in 1 .. Len(nodes[parent].children) :
          nodes[nodes[parent].children[i]].action
              = get_valid_moves(nodes[parent].game_state[1])[i]

\* The children of the root with the most visits.
MostVisited ==
    {c \in RootChildren :
        \A d \in RootChildren :
            search.nodes[d].visit_count <= search.nodes[c].visit_count}

\* The least of a non-empty set of numbers.
Least(numbers) == CHOOSE n \in numbers : \A m \in numbers : n <= m

\* C15: with temperature 0, every step of the selection of a simulation
\* goes to the first child, in legal-move order, of those with the highest
\* UCB score, scored on the tree as it was before the simulation; and the
\* action get_best_action returns is, when the root has children, the
\* action of the lowest index among the root's most visited children, and
\* without children the legal action of the lowest index.  The choice has
\* one outcome, so equal calls return equal actions.
C15_TiesResolvedInOrder ==
    (Searching /\ search.temperature = 0) =>
        /\ \A k \in 1 .. Len(search.search_path) - 1 :
              /\ ChildrenInLegalOrder(search.before, search.search_path[k])
              /\ FirstBest(search.before, search.search_path[k],
                           search.search_path[k + 1])
        /\ (search.phase = "chosen" /\ RootChildren # {})
              => /\ search.action_idx
                       = Least({IndexOf(search.nodes[c].action) : c \in MostVisited})
                 /\ IndexOf(search.action) = search.action_idx
        /\ (search.phase = "chosen" /\ RootChildren = {})
              => /\ search.action_idx = Least(LegalIndices)
                 /\ IndexOf(search.action) = search.action_idx

\* An action was returned with temperature 0 where two children of the
\* root tie for the most visits, after a selection among tied scores.
C15_Witness ==
    /\ search.phase = "chosen"
    /\ search.temperature = 0
    /\ Len(search.search_path) >= 2
    /\ Cardinality(MostVisited) >= 2
    /\ \E c \in MostVisited : search.nodes[c].visit_count >= 1
    /\ \E c \in RootChildren :
          /\ c # search.search_path[2]
          /\ ~ScoreGreater(search.before[search.search_path[2]], search.before[c],
                           search.before[1].visit_count)

(***************************************************************************)
(* C16  Malformed distribution                                             *)
(***************************************************************************)
\* The distribution the evaluator returns is malformed for a state: wrong
\* length, an entry that is not a number, or no mass on the legal actions.
Malformed(policy, game_state) ==
    \/ Len(policy) # NumActions
    \/ \E k \in 1 .. Len(policy) : policy[k].nan
    \/ \A action \in EmptyCellsTimesRanks(game_state) :
          policy[IndexOf(action) + 1].num = 0

\* The expanded nodes whose evaluation was malformed.
MalformedNodes ==
    {n \in 1 .. Len(search.nodes) :
        /\ search.nodes[n].is_expanded
        /\ Malformed(PolicyOf(search.evaluator.policy),
                     search.nodes[n].game_state[1])}

\* C16 as claimed: a node expanded on a malformed distribution has the
\* prior 1 / (number of legal actions) on each of its children, and the
\* search does not raise.
C16_MalformedGivesUniformPrior ==
    Searching =>
        /\ \A n \in MalformedNodes :
              \A i \in 1 .. Len(search.nodes[n].children) :
                  /\ ~search.nodes[search.nodes[n].children[i]].prior.nan
                  /\ search.nodes[search.nodes[n].children[i]].prior.num
                        * Len(search.nodes[n].children)
                     = search.nodes[search.nodes[n].children[i]].prior.den
        /\ search.error # "AttributeError"

(***************************************************************************)
(* C17  Fallback of get_best_action                                        *)
(***************************************************************************)
\* The index chosen decodes to no legal move of the state searched.
NotALegalMove(action_idx) ==
    \/ decode_action(action_idx) = << >>
    \/ decode_action(action_idx)[1] \notin LegalActions

\* C17 as claimed: when the index get_best_action chose decodes to no legal
\* move, get_best_action returns the first legal action and does not
\* raise.
C17_FallbackNeverRaises ==
    (/\ search.phase \in {"chosen", "raised"}
     /\ search.error # "AttributeError"
     /\ NotALegalMove(search.action_idx))
        => /\ search.phase = "chosen"
           /\ get_valid_moves(state) # << >>
           /\ search.action = get_valid_moves(state)[1]

(***************************************************************************)
(* C18  No visited children                                                *)
(***************************************************************************)
\* The vector is uniform over the legal actions: 1 / (number of legal
\* actions) at the index of each and 0 elsewhere.
UniformOverLegal ==
    \A k \in Indices :
        IF k \in LegalIndices
        THEN P(k) * Cardinality(LegalActions) = Den
        ELSE P(k) = 0

\* The vector is 1 at the pass slot and 0 elsewhere.
AllOnPassSlot ==
    \A k \in Indices : IF k = PassSlot THEN P(k) = Den ELSE P(k) = 0

\* C18 as claimed: when search returns and no child of the root was
\* visited, the vector returned is uniform over the legal actions of the
\* root state, 0 at every other index.
C18_NoVisitsGivesUniformOverLegal ==
    (search.phase = "returned" /\ RootChildVisits = 0) => UniformOverLegal

\* C18 as amended: when search returns and no child of the root was
\* visited, the vector returned is uniform over the legal actions of the
\* root state and 0 at every other index if the root state has a legal
\* action; if it has none, the vector is 1 at the pass slot 72 and 0 at
\* every other index.
C18_NoVisitsGivesUniformOrPass ==
    (search.phase = "returned" /\ RootChildVisits = 0)
        => IF LegalActions # {} THEN UniformOverLegal ELSE AllOnPassSlot

\* search returned after one simulation from a root whose player has both
\* ranks to play: the root has children, none visited.
C18_Witness ==
    /\ search.phase = "returned"
    /\ search.num_simulations = 1
    /\ RootChildren # {}
    /\ RootChildVisits = 0
    /\ \E a \in LegalActions : a[3] = CAT
    /\ \E a \in LegalActions : a[3] = KITTEN

(***************************************************************************)
(* C19  The vector returned is a distribution                              *)
(***************************************************************************)
\* All entries are non-negative and they sum to 1.
IsDistribution ==
    /\ Den > 0
    /\ \A k \in Indices : P(k) >= 0
    /\ SumOf(search.action_probs.num) = Den

\* C19 as claimed: the vector search returns is a distribution and each
\* of its non-zero entries is at the index of a legal action of the root
\* state.
C19_DistributionOverLegal ==
    search.phase = "returned"
        => /\ IsDistribution
           /\ \A k \in Indices : P(k) # 0 => k \in LegalIndices

\* C19 as amended: the vector search returns is a distribution and each
\* of its non-zero entries is at the index of a legal action of the root
\* state, or at the pass slot 72 when the root state has no legal action.
C19_DistributionOverLegalOrPass ==
    search.phase = "returned"
        => /\ IsDistribution
           /\ \A k \in Indices :
                 P(k) # 0 => \/ k \in LegalIndices
                             \/ LegalActions = {} /\ k = PassSlot

\* search returned with temperature 0 where one child of the root has the
\* most visits and another has fewer, but some.
C19_Witness ==
    /\ search.phase = "returned"
    /\ search.temperature = 0
    /\ \E c \in RootChildren, d \in RootChildren :
          /\ search.nodes[d].visit_count > 0
          /\ search.nodes[c].visit_count > search.nodes[d].visit_count

(***************************************************************************)
(* C20  The action encoding                                                *)
(***************************************************************************)
\* The 72 placements.
Placements == (0 .. SIZE - 1) \X (0 .. SIZE - 1) \X PieceType

\* C20: in every chain of calls, decode_action returns a placement for an
\* index below 72 and None for 72 .. 107; encode_action returns an index
\* in 0 .. 71, the same index MCTSNode.expand computes for the action;
\* encoding what decode_action returned gives back the index decoded, and
\* decoding what encode_action returned gives back the action encoded.
C20_EncodingIsBijection ==
    /\ \A i \in 1 .. Len(codec) - 1 :
          /\ codec[i].kind = "index" =>
                IF codec[i].index < 72
                THEN /\ codec[i + 1].kind = "action"
                     /\ codec[i + 1].action \in Placements
                ELSE codec[i + 1].kind = "none"
          /\ codec[i].kind = "action" =>
                /\ codec[i + 1].kind = "index"
                /\ codec[i + 1].index \in 0 .. 71
                /\ codec[i + 1].inline = codec[i + 1].index
    /\ \A i \in 1 .. Len(codec) - 2 :
          codec[i + 1].kind # "none" =>
              /\ codec[i + 2].kind = codec[i].kind
              /\ codec[i + 2].index = codec[i].index
              /\ codec[i + 2].action = codec[i].action

\* A Cat placement off the diagonal encoded and decoded again.
C20_Witness ==
    /\ Len(codec) = 3
    /\ codec[1].kind = "action"
    /\ codec[1].action[3] = CAT
    /\ codec[1].action[1] # codec[1].action[2]
    /\ codec[3].kind = "action"

(***************************************************************************)
(* C21..C25: the search tree                                               *)
(***************************************************************************)
\* The nodes of the tree that hold a state.
Materialized ==
    {n \in 1 .. Len(search.nodes) : search.nodes[n].game_state # << >>}

StateOf(n) == search.nodes[n].game_state[1]

\* The colour that moves at node n.
ToMove(n) == StateOf(n).players[StateOf(n).current_player_idx].color

\* The visited children whose move won the game for the player moving at
\* their parent.
WinningChildren ==
    {c \in Materialized :
        /\ search.nodes[c].parent # 0
        /\ search.nodes[c].visit_count > 0
        /\ ~WinnerRecorded(StateOf(search.nodes[c].parent))
        /\ StateOf(c).winner = ToMove(search.nodes[c].parent)}

\* C21 — A terminal child reached by an immediately winning move has the
\* exploitation term -value(child) equal to +1 at its parent, never -1:
\* its value_sum is the negative of its visit_count.
C21_WinningMoveScoresPlusOne ==
    \A c \in WinningChildren :
        search.nodes[c].value_sum = - search.nodes[c].visit_count

\* The leaf of the latest simulation: the last node of its search path.
Leaf == search.search_path[Len(search.search_path)]

\* A simulation has run to its backup and the search has not raised.
Simulated == search.phase = "searching" /\ search.done > 0

\* The game is over at node n: a winner is recorded or the player to move
\* has an empty pool.
GameOverAt(n) == WinnerRecorded(StateOf(n)) \/ PoolEmpty(StateOf(n))

\* C22 — When a simulation ends at a terminal state the evaluator is not
\* called and the leaf value is +1 if the recorded winner is the player
\* to move in that state, -1 if it is the other player, and 0 if no
\* winner is recorded.
C22_TerminalLeafValue ==
    Simulated /\ GameOverAt(Leaf) =>
        /\ search.predict_calls = 0
        /\ search.leaf_value =
              IF ~WinnerRecorded(StateOf(Leaf)) THEN 0
              ELSE IF StateOf(Leaf).winner = ToMove(Leaf) THEN 1 ELSE -1
        /\ search.nodes[Leaf].value_sum =
              search.before[Leaf].value_sum + search.leaf_value

\* A simulation ended at a state whose winner is the player to move.
C22_Witness ==
    /\ Simulated
    /\ WinnerRecorded(StateOf(Leaf))
    /\ StateOf(Leaf).winner = ToMove(Leaf)
    /\ search.leaf_value = 1

\* A simulation ended at a state whose winner is not the player to move.
C22_WitnessLoss ==
    /\ Simulated
    /\ WinnerRecorded(StateOf(Leaf))
    /\ StateOf(Leaf).winner # ToMove(Leaf)
    /\ search.leaf_value = -1

\* A simulation ended at a state without winner whose player to move has
\* an empty pool.
C22_WitnessDraw ==
    /\ Simulated
    /\ ~WinnerRecorded(StateOf(Leaf))
    /\ PoolEmpty(StateOf(Leaf))
    /\ search.leaf_value = 0

\* The place of node n on the latest search path, 0 when it is not on it.
PathPlace(n) ==
    IF \E k \in 1 .. Len(search.search_path) : search.search_path[k] = n
    THEN CHOOSE k \in 1 .. Len(search.search_path) : search.search_path[k] = n
    ELSE 0

\* (-1)^n
Alternating(n) == IF n % 2 = 0 THEN 1 ELSE -1

\* C23 — The backup from a leaf with value v adds 1 to the visit count
\* of every node of the search path and (-1)^(d-k) * v to the value sum of
\* the node at depth k (d the depth of the leaf), changes no node off the
\* path, and so updates the same nodes by the same amounts as
\* MCTSNode.backup walking the parent references from the leaf.
C23_BackupAlongPath ==
    Simulated =>
        /\ Len(search.nodes) = Len(search.expanded)
        /\ \A n \in 1 .. Len(search.nodes) :
              IF PathPlace(n) = 0
              THEN search.nodes[n] = search.expanded[n]
              ELSE search.nodes[n] =
                     [search.expanded[n] EXCEPT
                        !.visit_count = @ + 1,
                        !.value_sum = @ + search.leaf_value
                            * Alternating(Len(search.search_path) - PathPlace(n))]
        /\ search.nodes = backup(search.expanded, Leaf, search.leaf_value)

\* A backup of a value other than 0 from a leaf two plies below the root.
C23_Witness ==
    /\ Simulated
    /\ Len(search.search_path) >= 3
    /\ search.leaf_value # 0
    /\ search.nodes[1].value_sum # search.expanded[1].value_sum

\* The state play_move leaves when the action of node n is played on the
\* state of its parent.
PlayedFromParent(n) ==
    play_move(StateOf(search.nodes[n].parent), search.nodes[n].action[1],
              search.nodes[n].action[2], search.nodes[n].action[3]).game_state

\* The nodes that held a state before the latest simulation.
MaterializedBefore ==
    {n \in 1 .. Len(search.before) : search.before[n].game_state # << >>}

\* C24 — The search never changes the caller's state: the root holds a
\* copy equal to it.  A node's state is materialised at most once, as the
\* state of its parent with the node's action played on it, and neither
\* state is changed by a later simulation: every materialised node other
\* than the root holds play_move(action) applied to its parent's state.
C24_StatesAreFrozen ==
    Searching =>
        /\ state = last.before
        /\ search.nodes[1].game_state = <<state>>
        /\ \A n \in Materialized :
              search.nodes[n].parent # 0 =>
                  /\ search.nodes[n].parent \in Materialized
                  /\ StateOf(n) = PlayedFromParent(n)
        /\ \A n \in MaterializedBefore :
              search.nodes[n].game_state = search.before[n].game_state

\* A simulation that went through a child materialised by an earlier
\* simulation and materialised a child of it.
C24_Witness ==
    /\ Simulated
    /\ Len(search.search_path) >= 3
    /\ search.search_path[2] \in MaterializedBefore
    /\ search.search_path[3] \notin MaterializedBefore
    /\ search.search_path[3] \in Materialized
    /\ StateOf(search.search_path[3]) # StateOf(search.search_path[2])

\* The expanded nodes of a tree.
ExpandedIn(nodes) == {n \in 1 .. Len(nodes) : nodes[n].is_expanded}

\* C25 — Between simulations, with k simulations completed: the root's
\* visit count is k; every expanded node's visit count is 1 plus the sum
\* of its children's visit counts; a node that is not expanded has no
\* children; and the latest simulation expanded at most one node and
\* called the evaluator at most once.
C25_VisitCountsAddUp ==
    Searching =>
        /\ search.nodes[1].visit_count = search.done
        /\ \A n \in 1 .. Len(search.nodes) :
              IF search.nodes[n].is_expanded
              THEN search.nodes[n].visit_count =
                     1 + SumVisits(search.nodes, search.nodes[n].children)
              ELSE search.nodes[n].children = << >>
        /\ ExpandedIn(search.before) \subseteq ExpandedIn(search.nodes)
        /\ Cardinality(ExpandedIn(search.nodes) \ ExpandedIn(search.before)) <= 1
        /\ search.predict_calls <= 1
        /\ search.predict_calls =
              Cardinality(ExpandedIn(search.nodes) \ ExpandedIn(search.before))

\* Three simulations or more done, an expanded child of the root visited
\* more than once, and the latest simulation expanded a node.
C25_Witness ==
    /\ search.phase = "searching"
    /\ search.done >= 3
    /\ \E c \in RootChildren :
          /\ search.nodes[c].is_expanded
          /\ search.nodes[c].visit_count >= 2
    /\ search.predict_calls = 1

(***************************************************************************)
(* C26, C27: push resolution as one wave                                   *)
(***************************************************************************)
\* The neighbours of the placement whose piece left its cell.
Left == {n \in Neighbours(PlacedAt) : At(Placed, n) # None /\ At(Pushed, n) = None}

\* The neighbours of the placement that c lies one step beyond.
BeyondOf(c) == {n \in Neighbours(PlacedAt) : Beyond(PlacedAt, n) = c}

\* The number of pieces on a board.
PiecesOn(grid) == Cardinality({c \in Cells : At(grid, c) # None})

\* The pieces of the game.
Pieces == {Piece(type, color) : type \in PieceType, color \in Color}

\* The number of times piece occurs in a list.
TimesIn(list, piece) == Cardinality({i \in 1 .. Len(list) : list[i] = piece})

\* C26 — Push resolution is a single wave from the placed piece: the
\* placed piece stays; a neighbour's piece stays, or moves exactly one
\* cell to the empty cell beyond it and stays there, or leaves the board
\* when the position beyond is off it; no neighbour cell receives a piece;
\* every other cell is unchanged; every piece is accounted for once.
C26_SingleWave ==
    Succeeded =>
        /\ At(Pushed, PlacedAt) = At(Placed, PlacedAt)
        /\ \A c \in Neighbours(PlacedAt) :
              At(Pushed, c) = At(Placed, c) \/ c \in Left
        /\ \A n \in Left :
              OnBoard(Beyond(PlacedAt, n)) =>
                  /\ At(Placed, Beyond(PlacedAt, n)) = None
                  /\ At(Pushed, Beyond(PlacedAt, n)) = At(Placed, n)
        /\ \A c \in Cells \ (Neighbours(PlacedAt) \cup {PlacedAt}) :
              At(Pushed, c) = At(Placed, c) \/ BeyondOf(c) \cap Left # {}
        /\ \A piece \in Pieces :
              TimesIn(last.out.booped_off, piece) =
                  Cardinality({n \in Left : /\ ~OnBoard(Beyond(PlacedAt, n))
                                            /\ At(Placed, n) = piece})
        /\ PiecesOn(Pushed) + Len(last.out.booped_off) = PiecesOn(Placed)

\* One neighbour pushed a cell further, another pushed off the board, and
\* a third left where it was.
C26_Witness ==
    /\ Succeeded
    /\ \E n \in Left : OnBoard(Beyond(PlacedAt, n))
    /\ \E n \in Left : ~OnBoard(Beyond(PlacedAt, n))
    /\ \E n \in Neighbours(PlacedAt) \ Left : At(Placed, n) # None

\* Orders of examining m neighbours, as lists of places in the list of
\* get_all_adjacent: the m rotations of the list, the m rotations of the
\* reversed list, and the list with two adjacent members exchanged.
Rotations(m) ==
    {[i \in 1 .. m |-> ((i - 1 + r) % m) + 1] : r \in 0 .. m - 1}

ReversedRotations(m) ==
    {[i \in 1 .. m |-> ((m - i + r) % m) + 1] : r \in 0 .. m - 1}

Exchanges(m) ==
    {[i \in 1 .. m |-> IF i = k THEN k + 1 ELSE IF i = k + 1 THEN k ELSE i] :
        k \in 1 .. m - 1}

Orders(m) == Rotations(m) \cup ReversedRotations(m) \cup Exchanges(m)

\* The neighbours of the latest placement, as get_all_adjacent lists them.
AdjacentToPlaced == get_all_adjacent(last.row, last.col)

\* The loop of resolve_boop run on the board after the latest placement,
\* the neighbours taken in the given order.
ResolvedIn(order) ==
    BoopLoop([grid |-> Placed, booped_off |-> << >>], PlacedPiece, PlacedAt,
             [i \in 1 .. Len(AdjacentToPlaced) |-> AdjacentToPlaced[order[i]]], 1)

SameOutcome(resolved) ==
    /\ resolved.grid = Pushed
    /\ \A piece \in Pieces :
          TimesIn(resolved.booped_off, piece) =
              TimesIn(last.out.booped_off, piece)

\* C27 — The outcome of push resolution does not depend on the order in
\* which the neighbours are examined: every order gives the same board
\* and the same pieces pushed off, counted with multiplicity.
C27_OrderIndependent ==
    Succeeded =>
        \A order \in Orders(Len(AdjacentToPlaced)) :
            SameOutcome(ResolvedIn(order))

\* Two different pieces were pushed off the board and a third was moved on
\* it: the list of the pieces pushed off depends on the order, the outcome
\* does not.
C27_Witness ==
    /\ Succeeded
    /\ Len(last.out.booped_off) >= 2
    /\ last.out.booped_off[1] # last.out.booped_off[2]
    /\ \E n \in Left : OnBoard(Beyond(PlacedAt, n))
    /\ \E order \in Orders(Len(AdjacentToPlaced)) :
          ResolvedIn(order).booped_off # last.out.booped_off

(***************************************************************************)
(* C28: the reserves                                                       *)
(***************************************************************************)
\* The Cats of player i that are not in its reserve: in its pool or on the
\* board.
CatsOutsideReserve(i) ==
    ListCount(state.players[i].pool, CAT)
    + BoardCount(state.board, CAT, state.players[i].color)

\* C28 — Each player's reserve holds only Cats of that player's color
\* and its size is 8, 5 or 2; so at most 6 Cats of one color are outside
\* the reserve, and the second win condition, 8 Cats of one color on the
\* board, holds in no reachable state.
C28_ReserveSizes ==
    \A i \in 0 .. 1 :
        /\ \A k \in 1 .. Len(state.players[i].reserve) :
              state.players[i].reserve[k] = Piece(CAT, state.players[i].color)
        /\ Len(state.players[i].reserve) \in {8, 5, 2}
        /\ CatsOutsideReserve(i) <= 6
        /\ BoardCount(state.board, CAT, state.players[i].color) # 8

\* A line with a Kitten was graduated while the reserve held 2 Cats: the
\* reserve still holds 2.
C28_Witness ==
    /\ Succeeded
    /\ last.out.kittens_graduated > 0
    /\ Len(last.before.players[Mover].reserve) = 2
    /\ Len(state.players[Mover].reserve) = 2

(***************************************************************************)
(* C29: the recorded winner                                                *)
(***************************************************************************)
\* C29 — Once a winner is recorded no later call of play_move changes
\* it: a call made with a winner on record leaves that winner on record.
C29_WinnerIsFinal ==
    last.called /\ WinnerRecorded(last.before) =>
        state.winner = last.before.winner

(***************************************************************************)
(* C30: Board.move_piece onto an occupied cell                             *)
(***************************************************************************)
\* C30 — move_piece(from, to) with the destination occupied fails without
\* effect: the piece on 'from' is neither moved nor removed and the board
\* is as it was.
C30_MoveOntoOccupiedKeepsBoard ==
    moved.called /\ At(moved.before, moved.to) # None =>
        /\ At(state.board, moved.from) = At(moved.before, moved.from)
        /\ state.board = moved.before

====
